---- MODULE Spec2Model ----
(***************************************************************************)
(* Model of the open-aasx-index harvester (package harvest):               *)
(*   - rate_limiter.py : TokenBucket, RateLimiter.acquire / wait_sync,     *)
(*                       ExponentialBackoff, handle_response               *)
(*   - downloader.py   : inspect_zip, download_file                        *)
(*   - storage.py      : catalog / state storage, deduplicate_candidates   *)
(*   - sources/*.py    : what each source returns, raises and remembers    *)
(*   - __main__.py     : discover_candidates, process_candidate,           *)
(*                       run_harvest                                       *)
(*                                                                         *)
(* Time is counted in ticks of 1/TicksPerSecond seconds and tokens in      *)
(* units of 1/TokenUnit token.  On a bucket whose rate is a float (the web *)
(* bucket) the float arithmetic of the code is exact on these values; on   *)
(* the github bucket a sum may be rounded below the count of units.        *)
(***************************************************************************)
EXTENDS Integers, Sequences, FiniteSets, TLC

(***************************************************************************)
(* Program constants (harvest/config.py, harvest/rate_limiter.py)           *)
(***************************************************************************)
WEB_REQUESTS_PER_SECOND == 1
GITHUB_REQUESTS_PER_MINUTE == 10
WebCapacity == 5
MAX_ZIP_ENTRIES == 500
MAX_COMPRESSION_RATIO == 100
MAX_UNCOMPRESSED_BYTES == 100 * 1024 * 1024

(***************************************************************************)
(* Bounds of the model                                                     *)
(***************************************************************************)
TicksPerSecond == 2
MaxTime == 9
NCallers == 2
MaxGrants == 7

\* One token is TokenUnit units: the unit is what the slowest bucket (github,
\* GITHUB_REQUESTS_PER_MINUTE / 60 tokens per second) gains in one tick.
TokenUnit == (60 \div GITHUB_REQUESTS_PER_MINUTE) * TicksPerSecond
Callers == 1..NCallers

Min(a, b) == IF a <= b THEN a ELSE b
CeilDiv(a, b) == (a + b - 1) \div b

VARIABLES
  now,          \* time.monotonic(), in ticks
  bucket,       \* the "web" TokenBucket: rate, capacity, tokens, last_update
  cpc,          \* per caller: "idle", "async_sleep" or "sync_sleep"
  wake,         \* per caller: the tick its sleep ends
  granted,      \* acquisitions that returned to their caller
  consumed,     \* tokens consumed (executions of tokens -= 1)
  backoffs,     \* RateLimiter._backoffs: per source, its ExponentialBackoff
  bo_last,      \* the last call on a backoff tracker and what it answered
  run403,       \* history: per source, the 403 responses handled in a row
  buckets,      \* RateLimiter._buckets: per source name, its TokenBucket
  lim_last,     \* the last call on the limiter: source, bucket found or made, wait
  lim_calls,    \* number of wait_sync and acquire calls made on the limiter
  lim_wait,     \* per coroutine: the source and wake time of the acquire it awaits
  zip_archive,  \* inspect_zip: the archive handed to it
  zip_result,   \* inspect_zip: the ZipInspection it returned
  dl_pc,        \* download_file: "idle", "acquire", "head", "get", "stream", "check", "done"
  dl_args,      \* download_file: max_bytes, check_zip
  dl_head,      \* download_file: what the HEAD probe answered
  dl_resp,      \* download_file: the GET response (status, headers, body length)
  dl_left,      \* download_file: bytes of the body not yet read
  dl_total,     \* download_file: total_bytes
  dl_file,      \* download_file: dest_path on disk (absent, or bytes written)
  dl_insp,      \* download_file: the ZipInspection, when inspect_zip ran
  dl_result,    \* download_file: the DownloadResult or the exception raised
  dl_reqs,      \* history: the HTTP requests this call sent, each with the
                \* number of the rate-limiter acquisition that preceded it
  catalog,      \* data/catalog.ndjson: the sequence of CatalogEntry records
  catalog_eol,  \* data/catalog.ndjson: the file is empty or ends with a newline
  state_file,   \* data/state/state.json: missing, or the saved HarvestState
  published,    \* public/: catalog.json, catalog.csv and stats.json
  runs,         \* number of harvest runs started
  run_pc,       \* run_harvest: its position
  config,       \* run_harvest: HarvestConfig (max_validate, dry_run)
  state,        \* run_harvest: the HarvestState in memory
  candidates,   \* run_harvest: what discovery returned
  new_candidates, \* run_harvest: what deduplication kept
  next_idx,     \* run_harvest: index of the next candidate of the loop
  processed,    \* run_harvest: processed
  new_entries,  \* run_harvest: new_entries
  dedup_seen,   \* history: state.seen_urls when deduplicate_candidates ran
  downloaded,   \* history: URLs download_file was called for in this run
  failed_urls,  \* history: the downloads of this run that failed (url, error)
  pre_catalog,  \* history: the catalog as the run's merge read it
  disc,         \* history: the Discovering step of this run, which sources it
                \* invoked and how they answered
  dry_start,    \* history: the files as they were when this dry run started
  leftover,     \* history: URLs the last processing loop left unprocessed,
                \* until the next run has discovered
  exit_status,  \* how the last process ended and what sys.exit(main()) passed
  processed_before, \* history: URLs processed by the runs that completed
  gh_cursor,    \* HarvestState.github_cursor as the GitHub source leaves it
  gh_prev,      \* history: repositories scanned by earlier GitHub discoveries
  gh_last,      \* the last GitHub discovery: its inputs and what it returned
  al_last,      \* the last _is_domain_allowed call: URL, allowlist, answer
  seed_last,    \* the last crawl_seed call: page, allowlist, candidates
  cc_state,     \* the CommonCrawlState handed from one discovery to the next
  cc_last,      \* the last search_aasx_urls call: the processed URLs before
                \* it, its candidates, the records it passed over
  cx_index,     \* the CDX index the runs query: its pages of records
  cx_config,    \* config.max_web and the allowlist of SOURCES.yml
  cx_cursor,    \* HarvestState.commoncrawl_cursor as persisted
  cx_pending,   \* history: eligible records of a fetched page that a pass
                \* left unconsumed and no pass has returned since
  cx_last,      \* the last discovery pass: the cursor before, failed or not
  sm_graph,     \* crawl_sitemap: per sitemap URL, the nested sitemaps it lists
  sm_stack,     \* crawl_sitemap: the calls in progress, innermost last
  sm_fetches,   \* crawl_sitemap: sitemaps fetched since the outermost call
  sm_running,   \* crawl_sitemap: the outermost call has not returned
  rq_pc,        \* rate_limited_request: where the call stands
  rq_call,      \* rate_limited_request: source and max_retries of the call
  rq_attempt,   \* rate_limited_request: the loop variable "attempt"
  rq_acq,       \* history: acquisitions since the last call of request_func
  rq_log,       \* history: the calls of request_func made by the call
  rq_result     \* rate_limited_request: what the call returned or raised

rlvars == <<now, bucket, cpc, wake, granted, consumed>>
zipvars == <<zip_archive, zip_result>>
dlvars == <<dl_pc, dl_args, dl_head, dl_resp, dl_left, dl_total, dl_file, dl_insp,
            dl_result, dl_reqs>>
runvars == <<catalog, catalog_eol, state_file, published, runs, run_pc, config, state, candidates,
             new_candidates, next_idx, processed, new_entries, dedup_seen, downloaded,
             failed_urls, pre_catalog, disc, dry_start, leftover, exit_status,
             processed_before>>
bovars == <<backoffs, bo_last, run403>>
lmvars == <<buckets, lim_last, lim_calls, lim_wait>>
ghvars == <<gh_cursor, gh_prev, gh_last>>
fnvars == <<al_last, seed_last>>
cxvars == <<cx_index, cx_config, cx_cursor, cx_pending, cx_last>>
ccvars == <<cc_state, cc_last, cxvars>>
smvars == <<sm_graph, sm_stack, sm_fetches, sm_running>>
rqvars == <<rq_pc, rq_call, rq_attempt, rq_acq, rq_log, rq_result>>
srcvars == <<ghvars, fnvars, ccvars, smvars, rqvars>>
vars == <<rlvars, bovars, lmvars, zipvars, dlvars, runvars, srcvars>>

(***************************************************************************)
(* rate_limiter.py : TokenBucket                                           *)
(***************************************************************************)
\* RateLimiter.__init__ / get_bucket: the "web" bucket, created full.
NewWebBucket(t) ==
  [rate        |-> (WEB_REQUESTS_PER_SECOND * TokenUnit) \div TicksPerSecond,
   capacity    |-> WebCapacity * TokenUnit,
   tokens      |-> WebCapacity * TokenUnit,
   short       |-> FALSE,
   last_update |-> t]

\* The fields of a bucket are floats.  tokens counts whole units; short says
\* that the float is below that count, by the rounding of a sum.  With a rate
\* of whole tokens per second every product and sum of _refill on the ticks
\* is a float, and nothing is rounded.
ExactRate(b) == (b.rate * TicksPerSecond) % TokenUnit = 0

\* How "self.tokens + elapsed * self.rate" stands to the sum of the counts:
\* equal to it (or above it, which no test of the code tells from equal), or
\* short of it.  The github rate, 10 / 60.0, is no float: after time has
\* passed the sum is rounded, one way or the other.
Roundings(b, t) ==
  IF ExactRate(b) \/ t = b.last_update THEN {"exact"} ELSE {"exact", "short"}

\* TokenBucket._refill; min(capacity, ...) cuts a sum above the capacity to
\* the capacity itself.
Refill(b, t, rnd) ==
  LET sum == b.tokens + (t - b.last_update) * b.rate
      short == IF t = b.last_update THEN b.short
               ELSE rnd = "short" /\ ~ExactRate(b)
  IN  [b EXCEPT !.tokens = Min(b.capacity, sum),
                !.short = short /\ sum <= b.capacity,
                !.last_update = t]

\* "self.tokens >= 1"
HasToken(b) == b.tokens > TokenUnit \/ (b.tokens = TokenUnit /\ ~b.short)

\* Mutant: an empty-handed caller waits one tick, whatever is missing.
Acquire_FixedSleep(b, t, rnd) ==
  LET r == Refill(b, t, rnd)
  IN  IF HasToken(r)
        THEN [bucket |-> [r EXCEPT !.tokens = r.tokens - TokenUnit], wait |-> 0,
              sleeps |-> FALSE]
        ELSE [bucket |-> r, wait |-> 1, sleeps |-> TRUE]

\* TokenBucket.acquire: the bucket after the call, the returned wait time
\* (in ticks, rounded up to the tick at which a sleep of that length ends
\* when a whole unit is missing) and whether it is above 0, which it is
\* whenever no token was taken: a bucket that is short of one token by
\* rounding gives no token and a wait far below a tick.
Acquire(b, t, rnd) ==
  LET r == Refill(b, t, rnd)
  IN  IF HasToken(r)
        THEN [bucket |-> [r EXCEPT !.tokens = r.tokens - TokenUnit], wait |-> 0,
              sleeps |-> FALSE]
        ELSE [bucket |-> r, wait |-> CeilDiv(TokenUnit - r.tokens, r.rate),
              sleeps |-> TRUE]

\* TokenBucket.acquire_async, the part after "await asyncio.sleep(wait_time)".
ConsumeAfterWait(b, t, rnd) ==
  LET r == Refill(b, t, rnd)
  IN  [r EXCEPT !.tokens = r.tokens - TokenUnit]

InitRL ==
  /\ now = 0
  /\ bucket = NewWebBucket(0)
  /\ cpc = [c \in Callers |-> "idle"]
  /\ wake = [c \in Callers |-> 0]
  /\ granted = 0
  /\ consumed = 0

Pending == Cardinality({c \in Callers : cpc[c] # "idle"})

\* The clock advances.
Tick ==
  /\ now < MaxTime
  /\ now' = now + 1
  /\ UNCHANGED <<bucket, cpc, wake, granted, consumed>>

\* RateLimiter.acquire -> TokenBucket.acquire_async, up to the await.
AcquireAsyncStart(c) ==
  /\ cpc[c] = "idle"
  /\ granted + Pending < MaxGrants
  /\ \E rnd \in Roundings(bucket, now) :
     LET a == Acquire(bucket, now, rnd)
     IN  /\ bucket' = a.bucket
         /\ IF a.sleeps
              THEN /\ cpc' = [cpc EXCEPT ![c] = "async_sleep"]
                   /\ wake' = [wake EXCEPT ![c] = now + a.wait]
                   /\ UNCHANGED <<granted, consumed>>
              ELSE /\ granted' = granted + 1
                   /\ consumed' = consumed + 1
                   /\ UNCHANGED <<cpc, wake>>
  /\ UNCHANGED now

\* TokenBucket.acquire_async, resumed once the sleep is over.
AcquireAsyncResume(c) ==
  /\ cpc[c] = "async_sleep"
  /\ now >= wake[c]
  /\ \E rnd \in Roundings(bucket, now) : bucket' = ConsumeAfterWait(bucket, now, rnd)
  /\ cpc' = [cpc EXCEPT ![c] = "idle"]
  /\ granted' = granted + 1
  /\ consumed' = consumed + 1
  /\ UNCHANGED <<now, wake>>

\* RateLimiter.wait_sync, up to time.sleep.
WaitSyncStart(c) ==
  /\ cpc[c] = "idle"
  /\ granted + Pending < MaxGrants
  /\ \E rnd \in Roundings(bucket, now) :
     LET a == Acquire(bucket, now, rnd)
     IN  /\ bucket' = a.bucket
         /\ IF a.sleeps
              THEN /\ cpc' = [cpc EXCEPT ![c] = "sync_sleep"]
                   /\ wake' = [wake EXCEPT ![c] = now + a.wait]
                   /\ UNCHANGED <<granted, consumed>>
              ELSE /\ granted' = granted + 1
                   /\ consumed' = consumed + 1
                   /\ UNCHANGED <<cpc, wake>>
  /\ UNCHANGED now

\* RateLimiter.wait_sync returns after time.sleep(wait_time).
WaitSyncResume(c) ==
  /\ cpc[c] = "sync_sleep"
  /\ now >= wake[c]
  /\ cpc' = [cpc EXCEPT ![c] = "idle"]
  /\ granted' = granted + 1
  /\ UNCHANGED <<now, bucket, wake, consumed>>

(***************************************************************************)
(* rate_limiter.py : ExponentialBackoff, RateLimiter.handle_response       *)
(*                                                                         *)
(* Delays are in seconds; with the default parameters every delay is an    *)
(* integer, so the float arithmetic is exact.                              *)
(***************************************************************************)
BaseDelay == 1
MaxDelay == 60
Multiplier == 2
ForbiddenRetries == 3
MaxFailures == 7

\* The source names handed to the limiter: the two it is built with and one
\* it has never seen.
Sources == {"github", "web", "crawl"}

\* The source names the calls are made for: a name the limiter is built with
\* and the one it has never seen.
CalledSources == {"web", "crawl"}

\* The status codes handed to handle_response.
StatusCodes == {199, 200, 299, 300, 403, 404, 429, 500, 503}

\* No tracker has been made for the source yet.
NoBackoff ==
  [base_delay |-> 0, max_delay |-> 0, multiplier |-> 0,
   current_delay |-> 0, consecutive_failures |-> 0]

\* ExponentialBackoff() / __post_init__
NewBackoff ==
  [base_delay |-> BaseDelay, max_delay |-> MaxDelay, multiplier |-> Multiplier,
   current_delay |-> BaseDelay, consecutive_failures |-> 0]

\* RateLimiter.get_backoff: the tracker of the source, made on first use.
GetBackoff(bs, s) == IF bs[s] = NoBackoff THEN NewBackoff ELSE bs[s]

\* Mutant: the delay grows without the cap.
RecordFailure_NoCap(b) ==
  [backoff |-> [b EXCEPT !.consecutive_failures = @ + 1,
                         !.current_delay = @ * b.multiplier],
   delay |-> b.current_delay]

\* Mutant: the delay grows by a fixed step instead of the multiplier.
RecordFailure_Additive(b) ==
  [backoff |-> [b EXCEPT !.consecutive_failures = @ + 1,
                         !.current_delay = Min(@ + b.base_delay, b.max_delay)],
   delay |-> b.current_delay]

\* ExponentialBackoff.record_failure: the tracker after the call and the
\* delay returned.
RecordFailure(b) ==
  [backoff |-> [b EXCEPT !.consecutive_failures = @ + 1,
                         !.current_delay = Min(@ * b.multiplier, b.max_delay)],
   delay |-> b.current_delay]

\* ExponentialBackoff.record_success
RecordSuccess(b) ==
  [b EXCEPT !.current_delay = b.base_delay, !.consecutive_failures = 0]

\* Mutant: a 403 is retried whatever the failure count.
HandleResponseOn_AlwaysRetry403(b, status) ==
  IF status \in {429, 503, 403}
    THEN [backoff |-> RecordFailure(b).backoff, retry |-> TRUE,
          delay |-> RecordFailure(b).delay]
  ELSE IF 200 <= status /\ status < 300
    THEN [backoff |-> RecordSuccess(b), retry |-> FALSE, delay |-> 0]
  ELSE [backoff |-> b, retry |-> FALSE, delay |-> 0]

\* RateLimiter.handle_response on the tracker of the source: the tracker after
\* the call, the answer, and the delay slept (0 when it does not wait).
HandleResponseOn(b, status) ==
  IF status \in {429, 503}
    THEN [backoff |-> RecordFailure(b).backoff, retry |-> TRUE,
          delay |-> RecordFailure(b).delay]
  ELSE IF status = 403
    THEN IF b.consecutive_failures < ForbiddenRetries
           THEN [backoff |-> RecordFailure(b).backoff, retry |-> TRUE,
                 delay |-> RecordFailure(b).delay]
           ELSE [backoff |-> b, retry |-> FALSE, delay |-> 0]
  ELSE IF 200 <= status /\ status < 300
    THEN [backoff |-> RecordSuccess(b), retry |-> FALSE, delay |-> 0]
  ELSE [backoff |-> b, retry |-> FALSE, delay |-> 0]

NoCall ==
  [op |-> "none", source |-> "", status |-> 0, retry |-> FALSE, delay |-> 0,
   before |-> NoBackoff]

InitBackoff ==
  /\ backoffs = [s \in Sources |-> NoBackoff]
  /\ bo_last = NoCall
  /\ run403 = [s \in Sources |-> 0]

\* get_backoff(source).wait_after_failure(): record_failure, then sleep.
BackoffFailure(s) ==
  /\ GetBackoff(backoffs, s).consecutive_failures < MaxFailures
  /\ LET b == GetBackoff(backoffs, s)
         r == RecordFailure(b)
     IN  /\ backoffs' = [backoffs EXCEPT ![s] = r.backoff]
         /\ bo_last' = [op |-> "record_failure", source |-> s, status |-> 0,
                        retry |-> FALSE, delay |-> r.delay, before |-> b]
  /\ run403' = [run403 EXCEPT ![s] = 0]

\* get_backoff(source).record_success()
BackoffSuccess(s) ==
  /\ LET b == GetBackoff(backoffs, s)
     IN  /\ backoffs' = [backoffs EXCEPT ![s] = RecordSuccess(b)]
         /\ bo_last' = [op |-> "record_success", source |-> s, status |-> 0,
                        retry |-> FALSE, delay |-> 0, before |-> b]
  /\ run403' = [run403 EXCEPT ![s] = 0]

\* RateLimiter.handle_response(source, status_code)
HandleResponse(s, status) ==
  /\ HandleResponseOn(GetBackoff(backoffs, s), status).backoff.consecutive_failures
       <= MaxFailures
  /\ LET b == GetBackoff(backoffs, s)
         r == HandleResponseOn(b, status)
     IN  /\ backoffs' = [backoffs EXCEPT ![s] = r.backoff]
         /\ bo_last' = [op |-> "handle_response", source |-> s, status |-> status,
                        retry |-> r.retry, delay |-> r.delay, before |-> b]
  /\ run403' = [run403 EXCEPT ![s] = IF status = 403 THEN Min(@ + 1, ForbiddenRetries + 1) ELSE 0]

(***************************************************************************)
(* rate_limiter.py : RateLimiter._buckets, get_bucket                      *)
(*                                                                         *)
(* The limiter with all its buckets.  wait_sync sleeps on the thread, so it *)
(* returns in the step that called it; acquire gives the event loop back   *)
(* while it sleeps, and other coroutines run before it is resumed.         *)
(***************************************************************************)
MaxCalls == 7

\* No bucket exists under the name.
NoBucket == [rate |-> 0, capacity |-> 0, tokens |-> 0, short |-> FALSE, last_update |-> 0]

\* RateLimiter.__init__: the "github" bucket, created full.
NewGithubBucket(t) ==
  [rate        |-> (GITHUB_REQUESTS_PER_MINUTE * TokenUnit) \div (60 * TicksPerSecond),
   capacity    |-> GITHUB_REQUESTS_PER_MINUTE * TokenUnit,
   tokens      |-> GITHUB_REQUESTS_PER_MINUTE * TokenUnit,
   short       |-> FALSE,
   last_update |-> t]

\* RateLimiter.__init__: self._buckets
InitialBuckets(t) ==
  [s \in Sources |-> IF s = "github" THEN NewGithubBucket(t)
                     ELSE IF s = "web" THEN NewWebBucket(t)
                     ELSE NoBucket]

\* Mutant: an unknown source gets a bucket shaped like the github one.
GetBucket_GithubDefault(bks, s, t) ==
  IF bks[s] = NoBucket THEN NewGithubBucket(t) ELSE bks[s]

\* RateLimiter.get_bucket: the bucket of the source, made on first use with
\* rate WEB_REQUESTS_PER_SECOND and capacity 5.
GetBucket(bks, s, t) == IF bks[s] = NoBucket THEN NewWebBucket(t) ELSE bks[s]

NoLimCall == [op |-> "none", source |-> "", created |-> FALSE, found |-> NoBucket,
              wait |-> 0]

\* The coroutine awaits no acquire.
NoWait == [source |-> "", wake |-> 0]

InitLimiter ==
  /\ buckets = InitialBuckets(0)
  /\ lim_last = NoLimCall
  /\ lim_calls = 0
  /\ lim_wait = [c \in Callers |-> NoWait]

\* RateLimiter.wait_sync(source), to its return.
LimWaitSync(s) ==
  /\ lim_calls < MaxCalls
  /\ \E rnd \in Roundings(GetBucket(buckets, s, now), now) :
     LET b == GetBucket(buckets, s, now)
         a == Acquire(b, now, rnd)
     IN  /\ now + a.wait <= MaxTime
         /\ buckets' = [buckets EXCEPT ![s] = a.bucket]
         /\ now' = now + a.wait
         /\ lim_last' = [op |-> "wait_sync", source |-> s,
                         created |-> (buckets[s] = NoBucket), found |-> b,
                         wait |-> a.wait]
  /\ lim_calls' = lim_calls + 1
  /\ UNCHANGED <<bucket, cpc, wake, granted, consumed, lim_wait>>

\* RateLimiter.acquire(source) awaited by coroutine c, up to
\* "await asyncio.sleep(wait_time)": get_bucket and TokenBucket.acquire.  With
\* a token at hand the call returns in this step.
LimAcquireStart(c, s) ==
  /\ lim_wait[c] = NoWait
  /\ lim_calls < MaxCalls
  /\ \E rnd \in Roundings(GetBucket(buckets, s, now), now) :
     LET b == GetBucket(buckets, s, now)
         a == Acquire(b, now, rnd)
     IN  /\ a.sleeps => now + a.wait <= MaxTime
         /\ buckets' = [buckets EXCEPT ![s] = a.bucket]
         /\ lim_wait' = IF a.sleeps
                          THEN [lim_wait EXCEPT ![c] = [source |-> s, wake |-> now + a.wait]]
                          ELSE lim_wait
         /\ lim_last' = [op |-> "acquire", source |-> s,
                         created |-> (buckets[s] = NoBucket), found |-> b,
                         wait |-> a.wait]
  /\ lim_calls' = lim_calls + 1
  /\ UNCHANGED rlvars

\* TokenBucket.acquire_async resumed after the sleep: _refill, tokens -= 1.
\* The event loop resumes sleepers in the order of their wake times, and not
\* before the clock has reached the wake time.
LimAcquireResume(c) ==
  /\ lim_wait[c] # NoWait
  /\ \A d \in Callers : lim_wait[d] # NoWait => lim_wait[c].wake <= lim_wait[d].wake
  /\ LET s == lim_wait[c].source
         t == IF now >= lim_wait[c].wake THEN now ELSE lim_wait[c].wake
     IN  /\ now' = t
         /\ \E rnd \in Roundings(buckets[s], t) :
              buckets' = [buckets EXCEPT ![s] = ConsumeAfterWait(buckets[s], t, rnd)]
  /\ lim_wait' = [lim_wait EXCEPT ![c] = NoWait]
  /\ UNCHANGED <<bucket, cpc, wake, granted, consumed, lim_last, lim_calls>>

(***************************************************************************)
(* rate_limiter.py : rate_limited_request                                 *)
(*                                                                         *)
(* One call at a time on the limiter of the process.  request_func is the  *)
(* caller's: each call of it returns a response with a status code, returns *)
(* an object without one, raises an Exception, or raises an exception that *)
(* is no Exception (asyncio.CancelledError, KeyboardInterrupt, SystemExit). *)
(* The coroutine gives the loop back at four awaits: the sleep inside      *)
(* limiter.acquire, request_func, and the sleep of wait_after_failure in   *)
(* handle_response and in the except block.  A cancellation of its task is *)
(* raised at the await where it is suspended.                              *)
(***************************************************************************)
MaxRetries == 2
\* The acquisitions the calls of rate_limited_request make on one limiter.
MaxRetryCalls == 6

\* The status codes of the responses request_func returns: one of each
\* branch of handle_response.
RequestStatuses == {200, 403, 429, 500}

\* What one call of request_func does.
RequestOutcomes ==
  [kind : {"response"}, status : RequestStatuses]
    \cup {[kind |-> "plain", status |-> 0], [kind |-> "raise", status |-> 0],
          [kind |-> "base_exception", status |-> 0]}

\* asyncio.CancelledError raised at a sleep of the function, not by a call
\* of request_func.
Cancelled == [kind |-> "cancelled", status |-> 0]

NoRequest == [source |-> "", max_retries |-> 0]
NotReturned == [kind |-> "none", call |-> 0, outcome |-> [kind |-> "none", status |-> 0]]

\* Mutant: a response that asks for a retry is retried on the last attempt too.
ShouldContinue_Always(should_retry, attempt, max_retries) == should_retry

\* "if should_retry and attempt < max_retries: continue"
ShouldContinue(should_retry, attempt, max_retries) ==
  should_retry /\ attempt < max_retries

\* "if attempt == max_retries: raise"
FinalAttempt(attempt, max_retries) == attempt = max_retries

\* The call of request_func made in this step, as the history keeps it:
\* recorded tells whether the step added a failure to the source's tracker.
Called(o) ==
  [attempt |-> rq_attempt, acquisitions |-> rq_acq, outcome |-> o,
   recorded |-> GetBackoff(backoffs', rq_call.source).consecutive_failures
                  > GetBackoff(backoffs, rq_call.source).consecutive_failures]

InitRetry ==
  /\ rq_pc = "idle"
  /\ rq_call = NoRequest
  /\ rq_attempt = 0
  /\ rq_acq = 0
  /\ rq_log = <<>>
  /\ rq_result = NotReturned

\* rate_limited_request(source, request_func, max_retries): the call is made.
\* It is made while the limiter and the tracker have room for all its attempts.
RqStart(s, m) ==
  /\ rq_pc = "idle"
  /\ lim_calls + m + 1 <= MaxRetryCalls
  /\ now + (m + 1) * TicksPerSecond <= MaxTime
  /\ GetBackoff(backoffs, s).consecutive_failures + m + 1 <= MaxFailures
  /\ rq_pc' = "loop"
  /\ rq_call' = [source |-> s, max_retries |-> m]
  /\ rq_attempt' = 0
  /\ rq_acq' = 0
  /\ rq_log' = <<>>
  /\ rq_result' = NotReturned
  /\ UNCHANGED <<rlvars, bovars, lmvars>>

\* The coroutine that runs rate_limited_request.
RqCaller == CHOOSE c \in Callers : \A d \in Callers : c <= d

\* "for attempt in range(max_retries + 1): await limiter.acquire(source)", up
\* to the await inside acquire, and "return None" once the range is exhausted.
RqLoop ==
  /\ rq_pc = "loop"
  /\ IF rq_attempt <= rq_call.max_retries
       THEN /\ LimAcquireStart(RqCaller, rq_call.source)
            /\ rq_acq' = IF lim_wait'[RqCaller] = NoWait THEN rq_acq + 1 ELSE rq_acq
            /\ rq_pc' = IF lim_wait'[RqCaller] = NoWait THEN "call" ELSE "acquire"
            /\ UNCHANGED rq_result
       ELSE /\ rq_pc' = "done"
            /\ rq_result' = [kind |-> "returned", call |-> 0,
                             outcome |-> [kind |-> "none", status |-> 0]]
            /\ UNCHANGED <<rlvars, lmvars, rq_acq>>
  /\ UNCHANGED <<bovars, rq_call, rq_attempt, rq_log>>

\* limiter.acquire(source) returns after its sleep.
RqAcquired ==
  /\ rq_pc = "acquire"
  /\ LimAcquireResume(RqCaller)
  /\ rq_acq' = rq_acq + 1
  /\ rq_pc' = "call"
  /\ UNCHANGED <<bovars, rq_call, rq_attempt, rq_log, rq_result>>

\* "result = await request_func()" and what follows it up to the next await
\* or the end of the call.  "except Exception" does not catch an exception
\* that is no Exception: it leaves the function at once, whatever the
\* attempt, and no failure is recorded.  handle_response sleeps exactly when
\* it answers True, and the except block sleeps before the next attempt:
\* record_failure is done, the sleep is ahead, and a result that is returned
\* whatever the answer is held until the sleep is over.
RqCall(o) ==
  /\ rq_pc = "call"
  /\ rq_acq' = 0
  /\ IF o.kind = "base_exception"
       THEN /\ rq_pc' = "done"
            /\ rq_result' = [kind |-> "raised", call |-> Len(rq_log) + 1, outcome |-> o]
            /\ UNCHANGED <<bovars, wake>>
     ELSE IF o.kind = "raise"
       THEN IF FinalAttempt(rq_attempt, rq_call.max_retries)
              THEN /\ rq_pc' = "done"
                   /\ rq_result' = [kind |-> "raised", call |-> Len(rq_log) + 1,
                                    outcome |-> o]
                   /\ UNCHANGED <<bovars, wake>>
              ELSE /\ BackoffFailure(rq_call.source)
                   /\ wake' = [wake EXCEPT ![RqCaller] =
                                 now + bo_last'.delay * TicksPerSecond]
                   /\ rq_pc' = "backoff"
                   /\ UNCHANGED rq_result
     ELSE LET r == HandleResponseOn(GetBackoff(backoffs, rq_call.source), o.status)
              sleeps == o.kind = "response" /\ r.retry
              continues == o.kind = "response"
                             /\ ShouldContinue(r.retry, rq_attempt, rq_call.max_retries)
          IN  /\ IF o.kind = "response"
                   THEN HandleResponse(rq_call.source, o.status)
                   ELSE UNCHANGED bovars
              /\ wake' = IF sleeps
                           THEN [wake EXCEPT ![RqCaller] = now + r.delay * TicksPerSecond]
                           ELSE wake
              /\ rq_pc' = IF sleeps THEN "backoff" ELSE "done"
              /\ rq_result' = IF continues THEN rq_result
                              ELSE [kind |-> "returned", call |-> Len(rq_log) + 1,
                                    outcome |-> o]
  /\ rq_log' = Append(rq_log, Called(o))
  /\ UNCHANGED <<now, bucket, cpc, granted, consumed, lmvars, rq_call, rq_attempt>>

\* "await asyncio.sleep(delay)" of wait_after_failure is over: the loop goes
\* to its next attempt ("continue", or the end of the except block), or the
\* result held is returned.
RqSlept ==
  /\ rq_pc = "backoff"
  /\ now' = IF now >= wake[RqCaller] THEN now ELSE wake[RqCaller]
  /\ IF rq_result = NotReturned
       THEN /\ rq_attempt' = rq_attempt + 1
            /\ rq_pc' = "loop"
       ELSE /\ rq_pc' = "done"
            /\ UNCHANGED rq_attempt
  /\ wake' = [wake EXCEPT ![RqCaller] = 0]
  /\ UNCHANGED <<bucket, cpc, granted, consumed, bovars, lmvars, rq_call, rq_acq,
                 rq_log, rq_result>>

\* The task is cancelled while it sleeps in limiter.acquire or in
\* wait_after_failure: asyncio.CancelledError is raised at the await, no
\* handler of the function catches it, and the token the acquisition waited
\* for is not taken.
RqCancel ==
  /\ rq_pc \in {"acquire", "backoff"}
  /\ lim_wait' = [lim_wait EXCEPT ![RqCaller] = NoWait]
  /\ rq_pc' = "done"
  /\ rq_result' = [kind |-> "raised", call |-> 0, outcome |-> Cancelled]
  /\ wake' = [wake EXCEPT ![RqCaller] = 0]
  /\ UNCHANGED <<now, bucket, cpc, granted, consumed, bovars, buckets, lim_last,
                 lim_calls, rq_call, rq_attempt, rq_acq, rq_log>>

\* The caller has the result or the exception; the coroutine is gone.
RqReturn ==
  /\ rq_pc = "done"
  /\ rq_pc' = "idle"
  /\ rq_call' = NoRequest
  /\ rq_attempt' = 0
  /\ rq_log' = <<>>
  /\ rq_result' = NotReturned
  /\ UNCHANGED <<rlvars, bovars, lmvars, rq_acq>>

(***************************************************************************)
(* downloader.py : inspect_zip                                             *)
(*                                                                         *)
(* The central directory of an archive is a sequence of runs: a run        *)
(* [n, cs, fs] stands for n entries with compress_size cs and file_size    *)
(* fs each.  A file that zipfile rejects with BadZipFile is BadZip; a file  *)
(* it rejects with another exception is UndecodableZip or UnsupportedZip.  *)
(***************************************************************************)
MaxRuns == 3

RunKinds ==
  { [n |-> 1,   cs |-> 1,         fs |-> 100],
    [n |-> 1,   cs |-> 1,         fs |-> 101],
    [n |-> 1,   cs |-> 0,         fs |-> 0],
    [n |-> 1,   cs |-> 0,         fs |-> 5],
    [n |-> 500, cs |-> 1,         fs |-> 1],
    [n |-> 1,   cs |-> 1048576,   fs |-> 104857600],
    [n |-> 1,   cs |-> 1,         fs |-> 104857601],
    [n |-> 1,   cs |-> 104857601, fs |-> 104857601] }

BadZip == << [n |-> 0, cs |-> 0, fs |-> 0] >>

\* A file with an entry name that is flagged UTF-8 and is not: zipfile raises
\* UnicodeDecodeError.
UndecodableZip == << [n |-> 0, cs |-> 0, fs |-> -1] >>

\* A file with an entry that needs an extract version zipfile does not know:
\* zipfile raises NotImplementedError.
UnsupportedZip == << [n |-> 0, cs |-> 0, fs |-> -2] >>

SeqsUpTo(S, k) == UNION { [1..m -> S] : m \in 0..k }

Archives == SeqsUpTo(RunKinds, MaxRuns)

\* The archives a download is tried on: at most one run.
RunKindArchives == SeqsUpTo(RunKinds, 1)

\* len(infos)
RECURSIVE EntryCount(_)
EntryCount(a) == IF a = <<>> THEN 0 ELSE Head(a).n + EntryCount(Tail(a))

\* sum(info.compress_size for info in infos)
RECURSIVE TotalCompressed(_)
TotalCompressed(a) ==
  IF a = <<>> THEN 0 ELSE Head(a).n * Head(a).cs + TotalCompressed(Tail(a))

\* sum(info.file_size for info in infos)
RECURSIVE TotalUncompressed(_)
TotalUncompressed(a) ==
  IF a = <<>> THEN 0 ELSE Head(a).n * Head(a).fs + TotalUncompressed(Tail(a))

\* compression_ratio, as the fraction num/den (0/1 when nothing is compressed)
CompressionRatio(tu, tc) ==
  IF tc > 0 THEN [num |-> tu, den |-> tc] ELSE [num |-> 0, den |-> 1]

\* ratio > k for a fraction, without forming k * den
RatioExceeds(r, k) ==
  \/ r.num \div r.den > k
  \/ r.num \div r.den = k /\ r.num % r.den > 0

\* entry_count > MAX_ZIP_ENTRIES
TooManyEntries(count) == count > MAX_ZIP_ENTRIES

\* total_uncompressed > MAX_UNCOMPRESSED_BYTES
UncompressedTooLarge(tu) == tu > MAX_UNCOMPRESSED_BYTES

\* compression_ratio > MAX_COMPRESSION_RATIO
RatioTooHigh(r) == RatioExceeds(r, MAX_COMPRESSION_RATIO)

\* Mutant: the three checks as an if/elif chain, which reports the first only.
SafetyReasons_ShortCircuit(count, tu, r) ==
  IF TooManyEntries(count) THEN <<"Too many entries">>
  ELSE IF UncompressedTooLarge(tu) THEN <<"Uncompressed size too large">>
  ELSE IF RatioTooHigh(r) THEN <<"Suspicious compression ratio">>
  ELSE <<>>

\* The "Safety checks" of inspect_zip: the list reasons, in the order appended.
SafetyReasons(count, tu, r) ==
  (IF TooManyEntries(count) THEN <<"Too many entries">> ELSE <<>>)
  \o (IF UncompressedTooLarge(tu) THEN <<"Uncompressed size too large">> ELSE <<>>)
  \o (IF RatioTooHigh(r) THEN <<"Suspicious compression ratio">> ELSE <<>>)

\* zipfile.ZipFile(file_path) raises something "except zipfile.BadZipFile"
\* does not catch.
ZipRaises(a) == a \in {UndecodableZip, UnsupportedZip}

\* The exception that leaves inspect_zip.
ZipException(a) ==
  IF a = UndecodableZip THEN "UnicodeDecodeError" ELSE "NotImplementedError"

\* inspect_zip returned nothing: the exception left it.
InspectionRaised(exception) ==
  [entry_count |-> -2, total_compressed |-> 0, total_uncompressed |-> 0,
   compression_ratio |-> [num |-> 0, den |-> 1],
   is_safe |-> FALSE, reason |-> <<exception>>]

\* inspect_zip.  reason is the list that "; ".join concatenates; the empty
\* list stands for reason = None.
inspect_zip(a) ==
  IF ZipRaises(a)
    THEN InspectionRaised(ZipException(a))
  ELSE IF a = BadZip
    THEN [entry_count |-> 0, total_compressed |-> 0, total_uncompressed |-> 0,
          compression_ratio |-> [num |-> 0, den |-> 1],
          is_safe |-> FALSE, reason |-> <<"Invalid ZIP file">>]
    ELSE LET count == EntryCount(a)
             tc == TotalCompressed(a)
             tu == TotalUncompressed(a)
             ratio == CompressionRatio(tu, tc)
             reasons == SafetyReasons(count, tu, ratio)
         IN  [entry_count |-> count, total_compressed |-> tc,
              total_uncompressed |-> tu, compression_ratio |-> ratio,
              is_safe |-> Len(reasons) = 0, reason |-> reasons]

NoInspection ==
  [entry_count |-> -1, total_compressed |-> 0, total_uncompressed |-> 0,
   compression_ratio |-> [num |-> 0, den |-> 1],
   is_safe |-> FALSE, reason |-> <<>>]

InitZip ==
  /\ zip_archive = <<>>
  /\ zip_result = NoInspection

\* A caller hands a file to inspect_zip.
InspectZip ==
  /\ zip_result = NoInspection
  /\ \E a \in Archives \cup {BadZip, UndecodableZip, UnsupportedZip} :
       /\ zip_archive' = a
       /\ zip_result' = inspect_zip(a)

\* The caller is done with the ZipInspection.
InspectDone ==
  /\ zip_result # NoInspection
  /\ zip_archive' = <<>>
  /\ zip_result' = NoInspection

(***************************************************************************)
(* downloader.py : download_file                                           *)
(***************************************************************************)
ChunkSize == 8192
MaxChunks == 2
MaxBudgetChunks == 1

\* Body lengths and declared sizes around the chunk boundaries.
BodyLens == { k * ChunkSize + d : k \in 0..MaxChunks, d \in {0, 1} }
Budgets == { k * ChunkSize + d : k \in 0..MaxBudgetChunks, d \in {0, 1} }

\* A file name is a stem and an extension.  NoName is None: the header has
\* no "filename=", the URL path has no last segment.  EmptyName is the name
\* of a header that says filename="".
NoName == [stem |-> "None", ext |-> ""]
EmptyName == [stem |-> "", ext |-> ""]
Names == { [stem |-> "model", ext |-> ".aasx"],
           [stem |-> "pack",  ext |-> ".zip"],
           [stem |-> "MODEL", ext |-> ".AASX"],
           [stem |-> "page",  ext |-> ".html"] }
\* A Content-Disposition file name with a directory part, "sub/model.aasx":
\* dest_dir holds no directory "sub".
DirNames == { [stem |-> "sub/model", ext |-> ".aasx"] }
FallbackName == [stem |-> "download", ext |-> ".aasx"]
ContentTypes == { "None", "application/zip", "application/octet-stream", "text/html" }
Statuses == { 200, 404, 503 }

\* What the HEAD probe can answer: an httpx.HTTPError (not supported, transport
\* failure, redirect loop), no Content-Length, or a declared size.
HeadAnswers == { [kind |-> "error", size |-> 0], [kind |-> "none", size |-> 0] }
               \cup { [kind |-> "declared", size |-> n] : n \in BodyLens }
NoHead == [kind |-> "unsent", size |-> 0]

Responses ==
  [ status : Statuses, cd : Names \cup DirNames \cup {NoName, EmptyName},
    urlname : Names \cup {NoName},
    ctype : ContentTypes, body : BodyLens ]
NoResp == [status |-> 0, filename |-> NoName, ctype |-> "None", body |-> 0]

NoFile == -1
NoResult == [kind |-> "none", detail |-> <<>>]

\* _extract_filename: the Content-Disposition file name when the header has
\* one, be it empty; else the last segment of the URL path, else None.
ExtractFilename(cd, urlname) == IF cd # NoName THEN cd ELSE urlname

\* _extract_filename(response, url) or "download.aasx": None and the empty
\* name give the fallback.
ResolveFilename(cd, urlname) ==
  LET f == ExtractFilename(cd, urlname)
  IN  IF f \in {NoName, EmptyName} THEN FallbackName ELSE f

\* filename.endswith((".zip", ".aasx")) or content_type in (...)
LooksLikeArchive(filename, ctype) ==
  \/ filename.ext \in {".zip", ".aasx"}
  \/ ctype \in {"application/zip", "application/octet-stream"}

\* dest_path.open("wb") raises FileNotFoundError: the directory the file
\* name points into does not exist.
OpenFails(filename) == filename \in DirNames

\* Mutant: the size the probe declares is not looked at.
HeadTooLarge_Ignored(h, max_bytes) == FALSE

\* The HEAD probe's size check: content_length and int(content_length) > max_bytes
HeadTooLarge(h, max_bytes) == h.kind = "declared" /\ h.size > max_bytes

\* The streaming loop's check after total_bytes += len(chunk)
OverBudget(total, max_bytes) == total > max_bytes

\* dest_path after the over-budget branch: f.close(); dest_path.unlink()
FileAfterAbort(f) == NoFile

\* dest_path after an unsafe inspection: dest_path.unlink(missing_ok=True)
FileAfterUnsafe(f) == NoFile

\* RateLimiter.wait_sync as download_file calls it: time.sleep blocks the
\* only thread, so the clock has advanced by the wait when it returns.
WaitSyncBlocking ==
  \E rnd \in Roundings(bucket, now) :
  LET a == Acquire(bucket, now, rnd)
  IN  /\ bucket' = a.bucket
      /\ now' = now + a.wait
      /\ granted' = granted + 1
      /\ consumed' = IF a.sleeps THEN consumed ELSE consumed + 1
      /\ UNCHANGED <<cpc, wake>>

\* An HTTP request as the client sends it: the only acquisition the call
\* made is rate_limiter.wait_sync("web") at its start, the granted-th one.
Sent(method) == [method |-> method, acquisition |-> granted]

InitDL ==
  /\ dl_pc = "idle"
  /\ dl_args = [max_bytes |-> 0, check_zip |-> TRUE]
  /\ dl_head = NoHead
  /\ dl_resp = NoResp
  /\ dl_left = 0
  /\ dl_total = 0
  /\ dl_file = NoFile
  /\ dl_insp = NoInspection
  /\ dl_result = NoResult
  /\ dl_reqs = <<>>

\* download_file is called: rate_limiter.wait_sync("web"), dest_dir.mkdir.
DLStart ==
  /\ dl_pc = "idle"
  /\ granted < MaxGrants
  /\ \E b \in Budgets, z \in BOOLEAN :
       dl_args' = [max_bytes |-> b, check_zip |-> z]
  /\ WaitSyncBlocking
  /\ dl_pc' = "head"
  /\ dl_head' = NoHead
  /\ dl_resp' = NoResp
  /\ dl_left' = 0
  /\ dl_total' = 0
  /\ dl_file' = NoFile
  /\ dl_insp' = NoInspection
  /\ dl_result' = NoResult
  /\ dl_reqs' = <<>>

\* The coroutine that runs download_file_async.
DLCaller == CHOOSE c \in Callers : \A d \in Callers : c <= d

\* download_file_async is called: "await rate_limiter.acquire("web")" up to
\* the sleep inside TokenBucket.acquire_async; with a token at hand the
\* acquisition returns in this step.  dest_dir.mkdir.
DLStartAsync ==
  /\ dl_pc = "idle"
  /\ granted < MaxGrants
  /\ \E b \in Budgets, z \in BOOLEAN :
       dl_args' = [max_bytes |-> b, check_zip |-> z]
  /\ \E rnd \in Roundings(bucket, now) :
     LET a == Acquire(bucket, now, rnd)
     IN  /\ bucket' = a.bucket
         /\ IF a.sleeps
              THEN /\ wake' = [wake EXCEPT ![DLCaller] = now + a.wait]
                   /\ dl_pc' = "acquire"
                   /\ UNCHANGED <<granted, consumed>>
              ELSE /\ granted' = granted + 1
                   /\ consumed' = consumed + 1
                   /\ dl_pc' = "head"
                   /\ UNCHANGED wake
  /\ dl_head' = NoHead
  /\ dl_resp' = NoResp
  /\ dl_left' = 0
  /\ dl_total' = 0
  /\ dl_file' = NoFile
  /\ dl_insp' = NoInspection
  /\ dl_result' = NoResult
  /\ dl_reqs' = <<>>
  /\ UNCHANGED <<now, cpc>>

\* TokenBucket.acquire_async resumed when the sleep is over: _refill and
\* tokens -= 1.  The coroutine is alone on the loop, which sleeps until the
\* wake time.  From here download_file_async does what download_file does.
DLAcquired ==
  /\ dl_pc = "acquire"
  /\ LET t == IF now >= wake[DLCaller] THEN now ELSE wake[DLCaller]
     IN  /\ now' = t
         /\ \E rnd \in Roundings(bucket, t) : bucket' = ConsumeAfterWait(bucket, t, rnd)
  /\ granted' = granted + 1
  /\ consumed' = consumed + 1
  /\ dl_pc' = "head"
  /\ UNCHANGED <<cpc, wake, dl_args, dl_head, dl_resp, dl_left, dl_total, dl_file,
                 dl_insp, dl_result, dl_reqs>>

\* client.head(url) and the Content-Length check.
DLHead ==
  /\ dl_pc = "head"
  /\ \E h \in HeadAnswers :
       /\ dl_head' = h
       /\ IF HeadTooLarge(h, dl_args.max_bytes)
            THEN /\ dl_pc' = "done"
                 /\ dl_result' = [kind |-> "FileTooLargeError",
                                  detail |-> <<"from Content-Length">>]
            ELSE /\ dl_pc' = "get"
                 /\ UNCHANGED dl_result
  /\ dl_reqs' = Append(dl_reqs, Sent("HEAD"))
  /\ UNCHANGED <<dl_args, dl_resp, dl_left, dl_total, dl_file, dl_insp>>

\* client.stream("GET", url) fails before a response: a redirect loop.
DLGetRedirects ==
  /\ dl_pc = "get"
  /\ dl_pc' = "done"
  /\ dl_result' = [kind |-> "TooManyRedirectsError", detail |-> <<"Too many redirects">>]
  /\ dl_reqs' = Append(dl_reqs, Sent("GET"))
  /\ UNCHANGED <<dl_args, dl_head, dl_resp, dl_left, dl_total, dl_file, dl_insp>>

\* client.stream("GET", url) fails before a response: a transport error.
DLGetError ==
  /\ dl_pc = "get"
  /\ dl_pc' = "done"
  /\ dl_result' = [kind |-> "DownloadFailedError", detail |-> <<"HTTP error">>]
  /\ dl_reqs' = Append(dl_reqs, Sent("GET"))
  /\ UNCHANGED <<dl_args, dl_head, dl_resp, dl_left, dl_total, dl_file, dl_insp>>

\* client.stream("GET", url) answers: the status check, the file name, and
\* dest_path.open("wb").
DLGet ==
  /\ dl_pc = "get"
  /\ \E r \in Responses :
       /\ dl_resp' = [status |-> r.status,
                      filename |-> ResolveFilename(r.cd, r.urlname),
                      ctype |-> r.ctype, body |-> r.body]
       /\ IF r.status >= 400
            THEN /\ dl_pc' = "done"
                 /\ dl_result' = [kind |-> "DownloadFailedError", detail |-> <<"HTTP status">>]
                 /\ UNCHANGED <<dl_left, dl_file>>
            ELSE IF OpenFails(ResolveFilename(r.cd, r.urlname))
            THEN /\ dl_pc' = "done"
                 /\ dl_result' = [kind |-> "FileNotFoundError", detail |-> <<"open">>]
                 /\ UNCHANGED <<dl_left, dl_file>>
            ELSE /\ dl_pc' = "stream"
                 /\ dl_left' = r.body
                 /\ dl_file' = 0
                 /\ UNCHANGED dl_result
  /\ dl_reqs' = Append(dl_reqs, Sent("GET"))
  /\ UNCHANGED <<dl_args, dl_head, dl_total, dl_insp>>

\* One turn of "for chunk in response.iter_bytes(chunk_size=8192)", or its end.
DLStream ==
  /\ dl_pc = "stream"
  /\ IF dl_left = 0
       THEN /\ dl_pc' = "check"
            /\ UNCHANGED <<dl_left, dl_total, dl_file, dl_result>>
       ELSE LET chunk == Min(ChunkSize, dl_left)
                total == dl_total + chunk
            IN  /\ dl_left' = dl_left - chunk
                /\ dl_total' = total
                /\ IF OverBudget(total, dl_args.max_bytes)
                     THEN /\ dl_file' = FileAfterAbort(dl_file)
                          /\ dl_pc' = "done"
                          /\ dl_result' = [kind |-> "FileTooLargeError",
                                           detail |-> <<"during download">>]
                     ELSE /\ dl_file' = dl_file + chunk
                          /\ UNCHANGED <<dl_pc, dl_result>>
  /\ UNCHANGED <<dl_args, dl_head, dl_resp, dl_insp, dl_reqs>>

\* response.iter_bytes raises an httpx.HTTPError while body is outstanding.
DLStreamError ==
  /\ dl_pc = "stream"
  /\ dl_left > 0
  /\ dl_pc' = "done"
  /\ dl_result' = [kind |-> "DownloadFailedError", detail |-> <<"HTTP error">>]
  /\ UNCHANGED <<dl_args, dl_head, dl_resp, dl_left, dl_total, dl_file, dl_insp, dl_reqs>>

\* After the loop: the ZIP safety check and the return.  An exception that
\* leaves inspect_zip leaves download_file too, with the file on disk.
DLCheck ==
  /\ dl_pc = "check"
  /\ IF dl_args.check_zip /\ LooksLikeArchive(dl_resp.filename, dl_resp.ctype)
       THEN \E a \in RunKindArchives \cup {BadZip, UndecodableZip, UnsupportedZip} :
              LET inspection == inspect_zip(a)
              IN  IF ZipRaises(a)
                    THEN /\ dl_result' = [kind |-> ZipException(a),
                                          detail |-> <<"inspect_zip">>]
                         /\ UNCHANGED <<dl_file, dl_insp>>
                    ELSE /\ dl_insp' = inspection
                         /\ IF ~inspection.is_safe
                              THEN /\ dl_file' = FileAfterUnsafe(dl_file)
                                   /\ dl_result' = [kind |-> "ZipBombError",
                                                    detail |-> inspection.reason]
                              ELSE /\ dl_result' = [kind |-> "DownloadResult",
                                                    detail |-> <<>>]
                                   /\ UNCHANGED dl_file
       ELSE /\ dl_result' = [kind |-> "DownloadResult", detail |-> <<>>]
            /\ UNCHANGED <<dl_file, dl_insp>>
  /\ dl_pc' = "done"
  /\ UNCHANGED <<dl_args, dl_head, dl_resp, dl_left, dl_total, dl_reqs>>

\* download_file has returned or raised: its frame is gone, and the caller,
\* done with the file, may call it again.
DLReturn ==
  /\ dl_pc = "done"
  /\ dl_pc' = "idle"
  /\ dl_args' = [max_bytes |-> 0, check_zip |-> TRUE]
  /\ dl_head' = NoHead
  /\ dl_resp' = NoResp
  /\ dl_left' = 0
  /\ dl_total' = 0
  /\ dl_file' = NoFile
  /\ dl_insp' = NoInspection
  /\ dl_result' = NoResult
  /\ dl_reqs' = <<>>

(***************************************************************************)
(* storage.py and __main__.py : catalog, state, run_harvest                *)
(*                                                                         *)
(* The world the sources look at is fixed: a code-search index of two      *)
(* pages, a seed page, a site whose sitemap lists no relevant page and a   *)
(* one-page web-archive index.  What varies from run to run is how each    *)
(* source's requests end: answered, failed on the network, or answered     *)
(* with a body that cannot be parsed.                                      *)
(***************************************************************************)
MaxHarvestRuns == 2
MaxValidate == 2
\* The entries a catalog holds before CatalogStorage.append is called.
MaxCatalog == 3

Urls == {"u1", "u2"}
Hashes == {"h1", "h2", "h3"}
\* The content the checker answers with a report verify_file trips on.
UncheckableHash == "h4"
\* The DownloadError raised, as str(e): the request failed, or inspect_zip
\* found the downloaded archive unsafe (a corrupted archive is "Invalid ZIP
\* file").
DownloadErrors == {"DownloadFailedError", "ZipBombError"}
\* The exceptions download_file lets through that are no DownloadError: the
\* file cannot be opened for writing, zipfile cannot read the entry names.
OtherErrors == {"FileNotFoundError", "UnicodeDecodeError"}

\* discover_candidates: the sources in the order they are invoked.
SourceOrder == <<"github", "seeds", "sitemap", "commoncrawl">>
SourceNames == {"github", "seeds", "sitemap", "commoncrawl"}
\* HarvestConfig.source: None ("all") or the one source to run.
SourceChoices == {"all"} \cup SourceNames
\* How the requests of a source end in one run: answered, failed on the
\* network, answered with a body the parser rejects, or answered with a body
\* that parses and holds something the code after the parser trips on (an
\* href or <loc> like "http://[x.aasx", a JSON value that is no object).
AnswerKinds == {"ok", "network_error", "parse_error", "malformed"}
\* The seed source parses with a regular expression, which rejects no body.
SourceKinds(src) == IF src = "seeds" THEN AnswerKinds \ {"parse_error"} ELSE AnswerKinds

\* GitHub code search for extension:aasx, page by page: the index holds
\* GithubTotalCount files and answers GithubPerPage of them per page.
GithubCodePages == << <<"u1">>, <<"u2">> >>
GithubPerPage == 1
GithubTotalCount == 2
\* The .aasx links on the seed page of SOURCES.yml.
SeedLinks == <<"u2">>
\* The .aasx links reached through the sitemap of the configured site.
SitemapLinks == <<>>
\* The records of the CDX index: one page without .aasx URLs, no next-page
\* token.
CdxRecords == <<>>
\* SOURCES.yml lists a site of type "sitemap".
SitemapConfigured == TRUE

\* process_candidate: id = f"sha256-{'0' * 64}", the placeholder of a failed entry
PlaceholderId == "sha256-0"
\* process_candidate: entry_id = f"sha256-{sha256}"
EntryId(sha256) == sha256

\* verify_file on the downloaded content, as the external checker judges
\* it: on h1 it exits with 0; on h2 it exits with another status and prints
\* its report; on h3 it prints no report (it cannot parse the file, or it
\* does not end in time).  On h4 verify_file raises: the checker exits with
\* another status and prints a report in which an element of "sub_checks" is
\* no object (_count_errors calls sub.get: AttributeError), or it prints a
\* byte that is no UTF-8 (subprocess.run(text=True): UnicodeDecodeError).
VerifyStatus(sha256) ==
  IF sha256 = "h1" THEN "verified"
  ELSE IF sha256 = "h2" THEN "parseable"
  ELSE IF sha256 = UncheckableHash THEN "raised"
  ELSE "failed"

\* What download_file does for one candidate: a DownloadError, another
\* exception, or a file with a content hash, which verify_file is called on.
Outcomes ==
  { [ok |-> FALSE, sha256 |-> "", error |-> e] : e \in DownloadErrors \cup OtherErrors }
  \cup { [ok |-> TRUE, sha256 |-> h, error |-> ""] : h \in Hashes \cup {UncheckableHash} }

\* HarvestState(): the cursors are None (0), the seen sets empty.  The
\* github cursor is the code-search page, kept as str(page).
EmptyState ==
  [seen_urls |-> {}, seen_sha256 |-> {}, github_cursor |-> 0, commoncrawl_cursor |-> 0]
NoStateFile ==
  [exists |-> FALSE, valid |-> FALSE, seen_urls |-> {}, seen_sha256 |-> {},
   github_cursor |-> 0, commoncrawl_cursor |-> 0]
\* The state file just opened with mode "w": truncated, nothing written yet.
TruncatedStateFile ==
  [exists |-> TRUE, valid |-> FALSE, seen_urls |-> {}, seen_sha256 |-> {},
   github_cursor |-> 0, commoncrawl_cursor |-> 0]

\* StateStorage.load raises (json.load on a file that is not valid JSON).
LoadRaises(f) == f.exists /\ ~f.valid

\* A line of the catalog file that json.loads rejects: the part of an entry
\* that a write cut short has left behind.
TornLine ==
  [id |-> "torn", url |-> "", sha256 |-> "", status |-> "", summary |-> "",
   discovered_at |-> 0]

\* CatalogStorage.iter_entries and read_all raise json.JSONDecodeError.
CatalogRaises(cat) == \E i \in DOMAIN cat : cat[i] = TornLine

\* The entries of a catalog file that are whole lines.
WholeLines(cat) == SelectSeq(cat, LAMBDA e : e # TornLine)

\* StateStorage.load
LoadState(f) ==
  IF ~f.exists THEN EmptyState
  ELSE [seen_urls |-> f.seen_urls, seen_sha256 |-> f.seen_sha256,
        github_cursor |-> f.github_cursor, commoncrawl_cursor |-> f.commoncrawl_cursor]

\* StateStorage.save, once json.dump has written the whole state.
SaveState(st) ==
  [exists |-> TRUE, valid |-> TRUE, seen_urls |-> st.seen_urls,
   seen_sha256 |-> st.seen_sha256, github_cursor |-> st.github_cursor,
   commoncrawl_cursor |-> st.commoncrawl_cursor]

\* Mutant: the state is used as loaded, without the catalog folded in.
UpdateFromCatalog_Skip(st, cat) == st

\* StateStorage.update_from_catalog
RECURSIVE UpdateFromCatalog(_, _)
UpdateFromCatalog(st, cat) ==
  IF cat = <<>> THEN st
  ELSE LET e == Head(cat)
           s1 == IF e.url # "" THEN [st EXCEPT !.seen_urls = @ \cup {e.url}] ELSE st
           s2 == IF e.sha256 # "" THEN [s1 EXCEPT !.seen_sha256 = @ \cup {e.sha256}] ELSE s1
       IN  UpdateFromCatalog(s2, Tail(cat))

\* Mutant: every offered candidate is kept.
deduplicate_candidates_NoFilter(cands, st) == cands

\* deduplicate_candidates
RECURSIVE deduplicate_candidates(_, _)
deduplicate_candidates(cands, st) ==
  IF cands = <<>> THEN <<>>
  ELSE LET c == Head(cands)
           rest == deduplicate_candidates(Tail(cands), st)
       IN  IF c.url # "" /\ c.url \notin st.seen_urls THEN <<c>> \o rest ELSE rest

\* The candidate dicts of a source for a list of URLs.
AsCandidates(urls) == [i \in 1..Len(urls) |-> [url |-> urls[i]]]

\* discover_candidates, "if config.source is None or config.source == ...":
\* the source is to be run; the sitemap source also needs a configured site.
SourceEnabled(cfg, src) ==
  /\ cfg.source \in {"all", src}
  /\ src = "sitemap" => SitemapConfigured

\* discover_candidates: "if state.github_cursor: page = int(state.github_cursor)",
\* else the page of a new GitHubSearchState, 1.  The cursor is kept as the
\* decimal string of the page; the model keeps the number it stands for.
CursorPage(st) == IF st.github_cursor # 0 THEN st.github_cursor ELSE 1

\* search_code: has_more = (page * per_page) < total_count
HasMore(page) == page * GithubPerPage < GithubTotalCount

\* Mutant: a failed request sends the search back to the first page.
DiscoverGithub_ResetOnError(st, kind) ==
  LET page == CursorPage(st)
      items == IF page <= Len(GithubCodePages) THEN GithubCodePages[page] ELSE <<>>
  IN  IF kind \in {"parse_error", "malformed"}
        THEN [raised |-> TRUE, urls |-> <<>>, state |-> st]
      ELSE IF kind = "network_error"
        THEN [raised |-> FALSE, urls |-> <<>>, state |-> [st EXCEPT !.github_cursor = 1]]
      ELSE [raised |-> FALSE, urls |-> items,
            state |-> [st EXCEPT !.github_cursor = IF HasMore(page) THEN page + 1 ELSE page]]

\* discover_github as discover_candidates calls it: code search of the page
\* the cursor names (page 1 without a cursor), the page advanced when the
\* index has more, state.github_cursor = str(page).  A network error is
\* caught in search_code and search_topics (no items, no advance); a body
\* that is not JSON makes response.json() raise through discover_github, and
\* so does one that is JSON and no object (data.get).
\* The topic search finds no repository in this world.
DiscoverGithub(st, kind) ==
  LET page == CursorPage(st)
      items == IF page <= Len(GithubCodePages) THEN GithubCodePages[page] ELSE <<>>
      has_more == HasMore(page)
  IN  IF kind \in {"parse_error", "malformed"}
        THEN [raised |-> TRUE, urls |-> <<>>, state |-> st]
      ELSE IF kind = "network_error"
        THEN [raised |-> FALSE, urls |-> <<>>,
              state |-> [st EXCEPT !.github_cursor = page]]
      ELSE [raised |-> FALSE, urls |-> items,
            state |-> [st EXCEPT !.github_cursor = IF has_more THEN page + 1 ELSE page]]

\* discover_seeds: fetch_page returns None on a network error; the links are
\* found by a regular expression, which no body makes fail; urljoin raises
\* ValueError on a matched href it cannot read as a URL.
DiscoverSeeds(st, kind) ==
  [raised |-> kind = "malformed",
   urls |-> IF kind \in {"network_error", "malformed"} THEN <<>> ELSE SeedLinks,
   state |-> st]

\* discover_sitemaps: _fetch returns None on a network error and
\* _parse_sitemap_xml returns nothing on a ParseError; urlparse raises
\* ValueError in _is_potential_aasx_page on a <loc> it cannot read as a URL.
DiscoverSitemaps(st, kind) ==
  [raised |-> kind = "malformed",
   urls |-> IF kind = "ok" THEN SitemapLinks ELSE <<>>,
   state |-> st]

\* discover_commoncrawl: query_cdx returns ([], None) on a network error and
\* skips the lines that are not JSON; a line that is JSON and no object is
\* kept, and record.get raises AttributeError on it.  Otherwise
\* state.commoncrawl_cursor becomes the next-page token, which this index
\* never sends.
DiscoverCommonCrawl(st, kind) ==
  [raised |-> kind = "malformed",
   urls |-> IF kind = "ok" THEN CdxRecords ELSE <<>>,
   state |-> IF kind = "malformed" THEN st ELSE [st EXCEPT !.commoncrawl_cursor = 0]]

DiscoverSource(src, st, kind) ==
  IF src = "github" THEN DiscoverGithub(st, kind)
  ELSE IF src = "seeds" THEN DiscoverSeeds(st, kind)
  ELSE IF src = "sitemap" THEN DiscoverSitemaps(st, kind)
  ELSE DiscoverCommonCrawl(st, kind)

\* Nothing discovered yet.
NoDiscovery(st) ==
  [raised |-> FALSE, candidates |-> <<>>, state |-> st, invoked |-> {},
   count |-> [s \in SourceNames |-> 0]]

\* discover_candidates from the i-th source on: each enabled source is
\* invoked in turn and its candidates appended; an exception raised by a
\* source ends the call.
RECURSIVE DiscoverFrom(_, _, _, _)
DiscoverFrom(i, cfg, kinds, acc) ==
  IF i > Len(SourceOrder) THEN acc
  ELSE LET src == SourceOrder[i]
           r == DiscoverSource(src, acc.state, kinds[src])
       IN  IF ~SourceEnabled(cfg, src) THEN DiscoverFrom(i + 1, cfg, kinds, acc)
           ELSE IF r.raised
             THEN [acc EXCEPT !.raised = TRUE, !.invoked = @ \cup {src}]
           ELSE DiscoverFrom(i + 1, cfg, kinds,
                  [raised |-> FALSE,
                   candidates |-> acc.candidates \o AsCandidates(r.urls),
                   state |-> r.state,
                   invoked |-> acc.invoked \cup {src},
                   count |-> [acc.count EXCEPT ![src] = Len(r.urls)]])

\* discover_candidates(config, state, sources_config)
discover_candidates(cfg, st, kinds) == DiscoverFrom(1, cfg, kinds, NoDiscovery(st))

\* process_candidate catches DownloadError only: any other exception of
\* download_file leaves it, and so does an exception of verify_file.
ProcessRaises(o) ==
  IF o.ok THEN VerifyStatus(o.sha256) = "raised" ELSE o.error \notin DownloadErrors

\* process_candidate raised: there is no entry.
NoEntry ==
  [id |-> "", url |-> "", sha256 |-> "", status |-> "raised", summary |-> "",
   discovered_at |-> 0]

\* process_candidate: the CatalogEntry built for a candidate and an outcome.
ProcessCandidate(c, o, t) ==
  IF ProcessRaises(o) THEN NoEntry
  ELSE IF ~o.ok
    THEN [id |-> PlaceholderId, url |-> c.url, sha256 |-> "",
          status |-> "failed", summary |-> o.error, discovered_at |-> t]
    ELSE [id |-> EntryId(o.sha256), url |-> c.url, sha256 |-> o.sha256,
          status |-> VerifyStatus(o.sha256), summary |-> "", discovered_at |-> t]

\* Mutant: the entry is appended whether or not its id is present.
PutEntry_Append(entries, e) == Append(entries, e)

\* entries_by_id[entry.id] = entry on a dict kept as the list of its values:
\* an id already present keeps its place, a new id goes to the end.
RECURSIVE PutEntry(_, _)
PutEntry(entries, e) ==
  IF entries = <<>> THEN <<e>>
  ELSE IF Head(entries).id = e.id THEN <<e>> \o Tail(entries)
  ELSE <<Head(entries)>> \o PutEntry(Tail(entries), e)

\* {e.id: e for e in existing_entries}, then entries_by_id[entry.id] = entry
\* for each new entry; list(entries_by_id.values())
RECURSIVE PutAll(_, _)
PutAll(entries, new) ==
  IF new = <<>> THEN entries ELSE PutAll(PutEntry(entries, Head(new)), Tail(new))

MergeEntries(existing, new) == PutAll(PutAll(<<>>, existing), new)

\* The ids as Python compares them: the placeholder, all zeros, comes first;
\* the hashes are in the order h1 < h2 < h3.
IdRank(id) ==
  IF id = PlaceholderId THEN 0
  ELSE IF id = "h1" THEN 1
  ELSE IF id = "h2" THEN 2
  ELSE 3

\* list.sort puts an entry behind the entries whose key is not greater.
RECURSIVE InsertById(_, _)
InsertById(sorted, e) ==
  IF sorted = <<>> THEN <<e>>
  ELSE IF IdRank(Head(sorted).id) <= IdRank(e.id)
    THEN <<Head(sorted)>> \o InsertById(Tail(sorted), e)
  ELSE <<e>> \o sorted

\* publish_catalog: entries.sort(key=lambda e: e.id)
RECURSIVE SortById(_)
SortById(entries) ==
  IF entries = <<>> THEN <<>>
  ELSE InsertById(SortById(SubSeq(entries, 1, Len(entries) - 1)), entries[Len(entries)])

\* The files of public/ in the order publish_catalog writes them.
ArtifactNames == {"json", "csv", "stats"}
ArtifactBefore == [csv |-> "json", stats |-> "csv"]
\* Where publish_catalog stands: a file is open for writing, or closed.
OpenPc == [json |-> "json_open", csv |-> "csv_open", stats |-> "stats_open"]
WrittenPc == [json |-> "json_written", csv |-> "csv_written", stats |-> "done"]

\* A file of public/ that no run has written.
NoArtifact == [state |-> "missing", rows |-> <<>>]
\* open(path, "w"): the file is empty until its writer has written and
\* closed it.
TruncatedArtifact == [state |-> "truncated", rows |-> <<>>]
\* A JSON file of which json.dump has written a part, or a file whose last
\* line is a part of a row: what is there cannot be parsed.
TornArtifact == [state |-> "torn", rows |-> <<>>]
\* The file with the rows written to it: the whole file as its writer
\* leaves it, or, of catalog.csv, the header and the rows written so far.
Artifact(rows) == [state |-> "written", rows |-> rows]
\* Nothing is published.
Unpublished == [f \in ArtifactNames |-> NoArtifact]

\* publish_csv: the row of an entry.
CsvRow(e) ==
  [id |-> e.id, url |-> e.url, sha256 |-> e.sha256, status |-> e.status,
   discovered_at |-> e.discovered_at]

\* publish_stats: total_entries and by_status, dict(Counter) of the statuses
\* that occur.
Stats(entries) ==
  [total_entries |-> Len(entries),
   by_status |-> { <<s, Cardinality({ i \in DOMAIN entries : entries[i].status = s })>> :
                     s \in { entries[i].status : i \in DOMAIN entries } }]

\* What publish_json, publish_csv and publish_stats write for the entries.
ArtifactRows(f, entries) ==
  IF f = "json" THEN entries
  ELSE IF f = "csv" THEN [i \in DOMAIN entries |-> CsvRow(entries[i])]
  ELSE <<Stats(entries)>>

\* The next write to an artifact that is open: publish_csv writes the header
\* and then one row per entry; json.dump of publish_json and publish_stats
\* writes the document piece by piece ("[]" of an empty catalog in one piece).
NextWritten(f, cur, rows) ==
  IF f = "csv"
    THEN IF cur = TruncatedArtifact THEN Artifact(<<>>)
         ELSE Artifact(SubSeq(rows, 1, Len(cur.rows) + 1))
  ELSE IF cur = TruncatedArtifact /\ rows # <<>> THEN TornArtifact
  ELSE Artifact(rows)

\* What a killed process leaves of an artifact that was open with content
\* cur written to it: only what the file object has flushed has reached the
\* file, the rest is lost.  Of catalog.csv that is nothing, a part that
\* ends inside a line, the header alone, or the header and the first rows.
KilledArtifacts(f, cur) ==
  {TruncatedArtifact}
    \cup (IF cur = TornArtifact \/ (cur.state = "written" /\ cur.rows # <<>>)
            THEN {TornArtifact} ELSE {})
    \cup (IF f = "csv" /\ cur.state = "written"
            THEN { Artifact(SubSeq(cur.rows, 1, j)) : j \in 0..Len(cur.rows) }
            ELSE {})

\* What a killed process leaves of the catalog file that was open with the
\* lines cat written to it: whole lines from the start, and a part of the
\* line after them when there is one.
KilledCatalogs(cat) ==
  LET whole == WholeLines(cat)
  IN  { SubSeq(whole, 1, k) : k \in 0..Len(whole) }
        \cup { Append(SubSeq(whole, 1, k), TornLine) :
                 k \in { j \in 0..Len(whole) : j < Len(cat) } }

\* Whether the catalog file a killed write_all leaves ends with a newline:
\* an empty file counts as ended, a cut line is not, and after a whole line
\* the cut may fall before or behind its newline, unless the newline had not
\* been written.
KilledEols(left, cat, eol) ==
  IF left = <<>> THEN {TRUE}
  ELSE IF left[Len(left)] = TornLine THEN {FALSE}
  ELSE IF left = cat /\ ~eol THEN {FALSE}
  ELSE BOOLEAN

\* "for candidate in new_candidates: if processed >= config.max_validate:
\* break": the loop is over.
LoopEnded(idx, cands, done, cfg) == idx > Len(cands) \/ done >= cfg.max_validate

\* Mutant: the dry-run flag is not looked at.
DryRunStops_Never(cfg) == FALSE

\* "if config.dry_run: ... return 0": the run stops after deduplication.
DryRunStops(cfg) == cfg.dry_run

NoConfig == [max_validate |-> 0, dry_run |-> FALSE, source |-> "all"]
NoDisc == [invoked |-> {}, kinds |-> [s \in SourceNames |-> "ok"],
           count |-> [s \in SourceNames |-> 0], raised |-> FALSE]
NoLeftover == {}
NoSnapshot == [catalog |-> <<>>, state_file |-> NoStateFile, published |-> Unpublished]

\* No process has exited since the last run started (or it was killed).
NoExit == [ending |-> "none", code |-> -1, dry_run |-> FALSE, new_entries |-> 0]

\* Mutant: an interruption is reported like any other failure.
ExitCode_InterruptAsFailure(ending) == IF ending = "returned" THEN 0 ELSE 1

\* main: run_harvest returned (both of its return statements return 0), an
\* Exception reached main (return 1) or KeyboardInterrupt did (return 130).
ExitCode(ending) ==
  IF ending = "interrupted" THEN 130
  ELSE IF ending = "raised" THEN 1
  ELSE 0

\* sys.exit(main()): how the run ended, the status passed on, and what the
\* run was (a dry run, the number of its new entries).
Exited(ending) ==
  [ending |-> ending, code |-> ExitCode(ending), dry_run |-> config.dry_run,
   new_entries |-> Len(new_entries)]

InitRun ==
  /\ catalog = <<>>
  /\ catalog_eol = TRUE
  /\ state_file = NoStateFile
  /\ published = Unpublished
  /\ runs = 0
  /\ run_pc = "idle"
  /\ config = NoConfig
  /\ state = EmptyState
  /\ candidates = <<>>
  /\ new_candidates = <<>>
  /\ next_idx = 1
  /\ processed = 0
  /\ new_entries = <<>>
  /\ dedup_seen = {}
  /\ downloaded = <<>>
  /\ failed_urls = {}
  /\ pre_catalog = <<>>
  /\ disc = NoDisc
  /\ dry_start = NoSnapshot
  /\ leftover = NoLeftover
  /\ exit_status = NoExit
  /\ processed_before = {}

\* What the process holds in memory is gone when it ends.
ForgetRun ==
  /\ run_pc' = "idle"
  /\ config' = NoConfig
  /\ state' = EmptyState
  /\ candidates' = <<>>
  /\ new_candidates' = <<>>
  /\ next_idx' = 1
  /\ processed' = 0
  /\ new_entries' = <<>>
  /\ dedup_seen' = {}
  /\ downloaded' = <<>>
  /\ failed_urls' = {}
  /\ pre_catalog' = <<>>
  /\ disc' = NoDisc
  /\ dry_start' = NoSnapshot

\* Loading State: parse_args, StateStorage.load, update_from_catalog.  A
\* state file that is not valid JSON makes load raise, a catalog line that
\* is not valid JSON makes update_from_catalog raise: the run fails.  A dry
\* run returns before max_validate is read, and is given one value of it.
RunLoad ==
  /\ run_pc = "idle"
  /\ runs < MaxHarvestRuns
  /\ runs' = runs + 1
  /\ \E d \in BOOLEAN, s \in SourceChoices :
       \E m \in (IF d THEN {MaxValidate} ELSE 0..MaxValidate) :
         config' = [max_validate |-> m, dry_run |-> d, source |-> s]
  /\ IF LoadRaises(state_file) \/ CatalogRaises(catalog)
       THEN /\ state' = EmptyState
            /\ run_pc' = "failed"
       ELSE /\ state' = UpdateFromCatalog(LoadState(state_file), catalog)
            /\ run_pc' = "loaded"
  /\ dry_start' = IF config'.dry_run
                    THEN [catalog |-> catalog, state_file |-> state_file,
                          published |-> published]
                    ELSE NoSnapshot
  /\ candidates' = <<>>
  /\ new_candidates' = <<>>
  /\ next_idx' = 1
  /\ processed' = 0
  /\ new_entries' = <<>>
  /\ dedup_seen' = {}
  /\ downloaded' = <<>>
  /\ failed_urls' = {}
  /\ pre_catalog' = <<>>
  /\ disc' = NoDisc
  /\ exit_status' = NoExit
  /\ UNCHANGED <<catalog, catalog_eol, state_file, published, leftover, processed_before>>

\* Discovering: discover_candidates invokes the enabled sources; an
\* exception of a source leaves run_harvest before "candidates" is assigned,
\* and the run fails.  The sources before it have written the state.
RunDiscover ==
  /\ run_pc = "loaded"
  /\ \E kinds \in [SourceNames -> AnswerKinds] :
       LET d == discover_candidates(config, state, kinds)
       IN  /\ \A s \in SourceNames : kinds[s] \in SourceKinds(s)
           /\ \A s \in SourceNames : ~SourceEnabled(config, s) => kinds[s] = "ok"
           /\ \A s \in SourceNames \ d.invoked : kinds[s] = "ok"
           /\ candidates' = IF d.raised THEN candidates ELSE d.candidates
           /\ state' = d.state
           /\ disc' = [invoked |-> d.invoked, kinds |-> kinds,
                       count |-> d.count, raised |-> d.raised]
           /\ run_pc' = IF d.raised THEN "failed" ELSE "discovered"
  /\ UNCHANGED <<catalog, catalog_eol, state_file, published, runs, config, new_candidates,
                 next_idx, processed, new_entries, dedup_seen, downloaded, failed_urls,
                 pre_catalog, dry_start, leftover, exit_status, processed_before>>

\* Deduplicating: deduplicate_candidates(candidates, state).
RunDedup ==
  /\ run_pc = "discovered"
  /\ new_candidates' = deduplicate_candidates(candidates, state)
  /\ dedup_seen' = state.seen_urls
  /\ run_pc' = "deduped"
  /\ disc' = NoDisc
  /\ leftover' = NoLeftover
  /\ UNCHANGED <<catalog, catalog_eol, state_file, published, runs, config, state, candidates,
                 next_idx, processed, new_entries, downloaded, failed_urls, pre_catalog,
                 dry_start, exit_status, processed_before>>

\* "if config.dry_run: ... return 0", and the process exits.
RunDryReturn ==
  /\ run_pc = "deduped"
  /\ DryRunStops(config)
  /\ ForgetRun
  /\ exit_status' = Exited("returned")
  /\ UNCHANGED <<catalog, catalog_eol, state_file, published, runs, leftover, processed_before>>

\* Processing: one turn of "for candidate in new_candidates".  An exception
\* that leaves process_candidate leaves run_harvest: the run fails, with the
\* entries of the earlier turns.  failed_urls keeps the downloads that
\* failed; a file that was downloaded and could not be verified is none.
RunProcess ==
  /\ run_pc \in {"deduped", "processing"}
  /\ ~DryRunStops(config)
  /\ ~LoopEnded(next_idx, new_candidates, processed, config)
  /\ \E o \in Outcomes :
       LET c == new_candidates[next_idx]
           entry == ProcessCandidate(c, o, runs)
       IN  /\ downloaded' = Append(downloaded, c.url)
           /\ failed_urls' = IF o.ok THEN failed_urls
                              ELSE failed_urls \cup {[url |-> c.url, error |-> o.error]}
           /\ IF ProcessRaises(o)
                THEN /\ run_pc' = "failed"
                     /\ UNCHANGED <<new_entries, state, processed, next_idx>>
                ELSE /\ new_entries' = Append(new_entries, entry)
                     /\ state' = [state EXCEPT
                                    !.seen_urls = @ \cup {c.url},
                                    !.seen_sha256 = IF entry.sha256 # ""
                                                      THEN @ \cup {entry.sha256} ELSE @]
                     /\ processed' = processed + 1
                     /\ next_idx' = next_idx + 1
                     /\ run_pc' = "processing"
  /\ UNCHANGED <<catalog, catalog_eol, state_file, published, runs, config, candidates,
                 new_candidates, dedup_seen, pre_catalog, disc, dry_start, leftover,
                 exit_status, processed_before>>

\* Merging: the loop is over (exhausted, or "break" at max_validate);
\* "if new_entries:" read_all, merge by id, and write_all as far as opening
\* the catalog file with mode "w", which truncates it.
RunMerge ==
  /\ run_pc \in {"deduped", "processing"}
  /\ ~DryRunStops(config)
  /\ LoopEnded(next_idx, new_candidates, processed, config)
  /\ pre_catalog' = catalog
  /\ catalog' = IF new_entries # <<>> THEN <<>> ELSE catalog
  /\ catalog_eol' = IF new_entries # <<>> THEN TRUE ELSE catalog_eol
  /\ leftover' = { new_candidates[i].url : i \in next_idx..Len(new_candidates) }
                    \ state.seen_urls
  /\ run_pc' = IF new_entries # <<>> THEN "writing" ELSE "merged"
  /\ UNCHANGED <<state_file, published, runs, config, state, candidates, new_candidates,
                 next_idx, processed, new_entries, dedup_seen, downloaded, failed_urls,
                 disc, dry_start, exit_status, processed_before>>

\* write_all, one turn of "for entry in entries", json.dump under way: it
\* hands the entry to the file piece by piece, and a part of it is written.
RunMergeDump ==
  /\ run_pc = "writing"
  /\ catalog_eol
  /\ catalog' = Append(catalog, TornLine)
  /\ catalog_eol' = FALSE
  /\ UNCHANGED run_pc
  /\ UNCHANGED <<state_file, published, runs, config, state, candidates, new_candidates,
                 next_idx, processed, new_entries, dedup_seen, downloaded, failed_urls,
                 pre_catalog, disc, dry_start, leftover, exit_status, processed_before>>

\* write_all, the same turn, json.dump returns: the rest of the entry is
\* written, and the line has no newline yet.
RunMergeWrite ==
  /\ run_pc = "writing"
  /\ CatalogRaises(catalog)
  /\ LET all_entries == MergeEntries(pre_catalog, new_entries)
         whole == WholeLines(catalog)
     IN  catalog' = Append(whole, all_entries[Len(whole) + 1])
  /\ UNCHANGED <<catalog_eol, run_pc>>
  /\ UNCHANGED <<state_file, published, runs, config, state, candidates, new_candidates,
                 next_idx, processed, new_entries, dedup_seen, downloaded, failed_urls,
                 pre_catalog, disc, dry_start, leftover, exit_status, processed_before>>

\* write_all, the same turn, f.write("\n"): the line is ended; after the
\* last entry the file is closed.
RunMergeNewline ==
  /\ run_pc = "writing"
  /\ ~CatalogRaises(catalog)
  /\ ~catalog_eol
  /\ catalog_eol' = TRUE
  /\ run_pc' = IF Len(catalog) = Len(MergeEntries(pre_catalog, new_entries))
                 THEN "merged" ELSE "writing"
  /\ UNCHANGED catalog
  /\ UNCHANGED <<state_file, published, runs, config, state, candidates, new_candidates,
                 next_idx, processed, new_entries, dedup_seen, downloaded, failed_urls,
                 pre_catalog, disc, dry_start, leftover, exit_status, processed_before>>

\* Persisting, first half: state.mark_run(); StateStorage.save opens the
\* state file with mode "w", which truncates it.
RunSaveOpen ==
  /\ run_pc = "merged"
  /\ state_file' = TruncatedStateFile
  /\ run_pc' = "saving"
  /\ UNCHANGED <<catalog, catalog_eol, published, runs, config, state, candidates, new_candidates,
                 next_idx, processed, new_entries, dedup_seen, downloaded, failed_urls,
                 pre_catalog, disc, dry_start, leftover, exit_status, processed_before>>

\* Persisting, second half: json.dump writes the state and the file is closed.
RunSave ==
  /\ run_pc = "saving"
  /\ state_file' = SaveState(state)
  /\ run_pc' = "saved"
  /\ UNCHANGED <<catalog, catalog_eol, published, runs, config, state, candidates, new_candidates,
                 next_idx, processed, new_entries, dedup_seen, downloaded, failed_urls,
                 pre_catalog, disc, dry_start, leftover, exit_status, processed_before>>

\* Mutant: the artifacts are published as soon as the catalog is merged.
RunPublish_BeforeSave ==
  /\ run_pc = "merged"
  /\ published' = [published EXCEPT !.json = TruncatedArtifact]
  /\ run_pc' = OpenPc["json"]
  /\ UNCHANGED <<catalog, catalog_eol, state_file, runs, config, state, candidates, new_candidates,
                 next_idx, processed, new_entries, dedup_seen, downloaded, failed_urls,
                 pre_catalog, disc, dry_start, leftover, exit_status, processed_before>>

\* Publishing: publish_catalog(catalog_storage, config.public_dir) reads the
\* catalog, sorts the entries by id, and publish_json opens catalog.json
\* with mode "w", which truncates it.
RunPublish ==
  /\ run_pc = "saved"
  /\ published' = [published EXCEPT !.json = TruncatedArtifact]
  /\ run_pc' = OpenPc["json"]
  /\ UNCHANGED <<catalog, catalog_eol, state_file, runs, config, state, candidates, new_candidates,
                 next_idx, processed, new_entries, dedup_seen, downloaded, failed_urls,
                 pre_catalog, disc, dry_start, leftover, exit_status, processed_before>>

\* publish_json, publish_csv, publish_stats: the next piece of the content
\* is written; with the last piece the file is closed, and after stats.json
\* publish_catalog returns.
RunPublishWrite(f) ==
  /\ run_pc = OpenPc[f]
  /\ LET rows == ArtifactRows(f, SortById(catalog))
         next == NextWritten(f, published[f], rows)
     IN  /\ published' = [published EXCEPT ![f] = next]
         /\ run_pc' = IF next = Artifact(rows) THEN WrittenPc[f] ELSE run_pc
  /\ UNCHANGED <<catalog, catalog_eol, state_file, runs, config, state, candidates, new_candidates,
                 next_idx, processed, new_entries, dedup_seen, downloaded, failed_urls,
                 pre_catalog, disc, dry_start, leftover, exit_status, processed_before>>

\* publish_csv, publish_stats: the next file is opened with mode "w".
RunPublishOpen(f) ==
  /\ f # "json"
  /\ run_pc = WrittenPc[ArtifactBefore[f]]
  /\ published' = [published EXCEPT ![f] = TruncatedArtifact]
  /\ run_pc' = OpenPc[f]
  /\ UNCHANGED <<catalog, catalog_eol, state_file, runs, config, state, candidates, new_candidates,
                 next_idx, processed, new_entries, dedup_seen, downloaded, failed_urls,
                 pre_catalog, disc, dry_start, leftover, exit_status, processed_before>>

\* The process exits: run_harvest has returned 0 ("done"), or an exception
\* has reached main's "except Exception" ("failed").  The next run starts
\* from the files.
RunExit ==
  /\ run_pc \in {"done", "failed"}
  /\ ForgetRun
  /\ exit_status' = Exited(IF run_pc = "done" THEN "returned" ELSE "raised")
  /\ processed_before' = IF run_pc = "done"
                           THEN processed_before \cup { downloaded[i] : i \in 1..Len(downloaded) }
                           ELSE processed_before
  /\ UNCHANGED <<catalog, catalog_eol, state_file, published, runs, leftover>>

\* The process is killed, anywhere between its start and its exit.  What
\* was written to a file that is open is in part in the buffer of the file
\* object, and lost: the file is left empty, or with the buffers that were
\* full, cut wherever a buffer ended.  A state file cut like this is no valid
\* JSON, as the one just opened.
Crash ==
  /\ run_pc # "idle"
  /\ ForgetRun
  /\ exit_status' = NoExit
  /\ catalog' \in (IF run_pc = "writing" THEN KilledCatalogs(catalog) ELSE {catalog})
  /\ catalog_eol' \in (IF run_pc = "writing"
                          THEN KilledEols(catalog', catalog, catalog_eol)
                          ELSE {catalog_eol})
  /\ published' \in
       UNION { { [published EXCEPT ![f] = a] : a \in KilledArtifacts(f, published[f]) } :
                 f \in { g \in ArtifactNames : run_pc = OpenPc[g] } }
         \cup (IF \E g \in ArtifactNames : run_pc = OpenPc[g] THEN {} ELSE {published})
  /\ UNCHANGED <<state_file, runs, leftover, processed_before>>

\* The user interrupts the run: KeyboardInterrupt is raised where the run
\* stands (before the state is loaded, when the process has just started;
\* after publish_catalog too: run_harvest still has its summary to log), no
\* handler below main catches it, and main returns 130.  A file that is
\* open is closed on the way, with what was written to it: the catalog with
\* a part of its last line or without its last newline, an artifact with a
\* part of its content.
Interrupt ==
  /\ run_pc # "failed"
  /\ run_pc = "idle" => runs < MaxHarvestRuns
  /\ runs' = IF run_pc = "idle" THEN runs + 1 ELSE runs
  /\ ForgetRun
  /\ \E d \in (IF run_pc = "idle" THEN BOOLEAN ELSE {config.dry_run}) :
       exit_status' = [Exited("interrupted") EXCEPT !.dry_run = d]
  /\ UNCHANGED <<catalog, catalog_eol, state_file, published, leftover, processed_before>>

\* CatalogStorage.append(entry), which run_harvest does not call: the entry
\* and a newline are written behind what the file holds, whatever the ids.
\* Behind a last line that has no newline the entry continues that line,
\* which json.loads then rejects.
AppendedEntries ==
  { [id |-> EntryId(h), url |-> u, sha256 |-> h, status |-> VerifyStatus(h),
     summary |-> "", discovered_at |-> 0] : h \in Hashes, u \in Urls }
CatalogAppend ==
  /\ run_pc = "idle"
  /\ Len(catalog) < MaxCatalog
  /\ \E e \in AppendedEntries :
       catalog' = IF catalog = <<>> \/ catalog_eol
                    THEN Append(catalog, e)
                    ELSE Append(SubSeq(catalog, 1, Len(catalog) - 1), TornLine)
  /\ catalog_eol' = TRUE
  /\ UNCHANGED <<state_file, published, runs, run_pc, config, state, candidates,
                 new_candidates, next_idx, processed, new_entries, dedup_seen,
                 downloaded, failed_urls, pre_catalog, disc, dry_start, leftover,
                 exit_status, processed_before>>

\* Between runs the state file is deleted.
EnvStateFileMissing ==
  /\ run_pc = "idle"
  /\ state_file.exists
  /\ state_file' = NoStateFile
  /\ UNCHANGED <<catalog, catalog_eol, published, runs, run_pc, config, state, candidates,
                 new_candidates, next_idx, processed, new_entries, dedup_seen,
                 downloaded, failed_urls, pre_catalog, disc, dry_start, leftover,
                 exit_status, processed_before>>

\* Between runs the state file is replaced by a stale copy, the one of a
\* first run that found nothing: its seen sets are empty, its cursors unset.
EnvStateFileStale ==
  /\ run_pc = "idle"
  /\ state_file.exists
  /\ state_file.valid
  /\ state_file # SaveState(EmptyState)
  /\ state_file' = SaveState(EmptyState)
  /\ UNCHANGED <<catalog, catalog_eol, published, runs, run_pc, config, state, candidates,
                 new_candidates, next_idx, processed, new_entries, dedup_seen,
                 downloaded, failed_urls, pre_catalog, disc, dry_start, leftover,
                 exit_status, processed_before>>

(***************************************************************************)
(* sources/github.py : GitHubSource.discover, as discover_candidates calls *)
(* it.  The code search is the one of the orchestrator (GithubCodePages);  *)
(* here the topic search finds repositories too.  Every request goes       *)
(* through _make_request: an httpx.HTTPError is caught by its caller, a    *)
(* body that is no JSON (JSONDecodeError) or no JSON object (AttributeError *)
(* at the caller's .get) leaves discover as an exception.                  *)
(***************************************************************************)
MaxResults == 3
MaxFaults == 2

\* DEFAULT_TOPICS
GithubTopics == <<"aasx", "aas", "asset-administration-shell">>
Repos == {"r1", "r2"}
\* search_topics: the repositories tagged with a topic.
TopicRepos(topic) ==
  IF topic = "aasx" THEN <<"r1", "r2">>
  ELSE IF topic = "aas" THEN <<"r1">>
  ELSE <<>>
\* search_repo_for_aasx: the .aasx files of a repository.
RepoFiles(repo) == IF repo = "r1" THEN <<"u1", "u2">> ELSE <<"u2">>

\* How the requests of one discovery end: the code search, each topic
\* search, each repository search, each license lookup.
RequestAnswers ==
  [code : AnswerKinds,
   topic : [{"aasx", "aas", "asset-administration-shell"} -> AnswerKinds],
   repo : [Repos -> AnswerKinds],
   license : [Repos -> AnswerKinds]]

\* The requests that are not answered well.
AnswerFaults(ans) ==
  (IF ans.code # "ok" THEN 1 ELSE 0)
    + Cardinality({ t \in DOMAIN ans.topic : ans.topic[t] # "ok" })
    + Cardinality({ r \in Repos : ans.repo[r] # "ok" })
    + Cardinality({ r \in Repos : ans.license[r] # "ok" })

\* In one discovery at most MaxFaults requests are not answered well.
GithubAnswers == { ans \in RequestAnswers : AnswerFaults(ans) <= MaxFaults }

\* The answer makes response.json() or the caller's .get raise.
AnswerRaises(kind) == kind \in {"parse_error", "malformed"}

\* search_repo_for_aasx(owner, repo): no candidates when the repository
\* search fails on the network; otherwise _get_repo_license is called (its
\* network error gives no license) and the files of the answer are the
\* candidates.  A body that is no JSON object, of either request, raises.
SearchRepoForAasx(repo, ans) ==
  IF ans.repo[repo] = "network_error" THEN [raised |-> FALSE, urls |-> <<>>]
  ELSE IF AnswerRaises(ans.repo[repo]) \/ AnswerRaises(ans.license[repo])
    THEN [raised |-> TRUE, urls |-> <<>>]
  ELSE [raised |-> FALSE, urls |-> RepoFiles(repo)]

\* GitHubSearchState() with the page of the stored cursor.
NewGitHubSearchState(page) ==
  [code_search_page |-> page, topic_repos_seen |-> {}, repos_searched |-> {}]

\* discover, "for repo_name in repos": a repository already searched is
\* passed over, the loop ends at max_results, a repository is added to
\* topic_repos_seen, scanned by search_repo_for_aasx and added to
\* repos_searched.  When search_repo_for_aasx raises, discover ends there:
\* the repository is seen and not searched, and no candidate is returned.
RECURSIVE ScanRepos(_, _, _, _)
ScanRepos(repos, acc, max_results, ans) ==
  IF repos = <<>> \/ acc.raised THEN acc
  ELSE LET repo == Head(repos)
           r == SearchRepoForAasx(repo, ans)
       IN  IF repo \in acc.state.repos_searched
             THEN ScanRepos(Tail(repos), acc, max_results, ans)
           ELSE IF Len(acc.candidates) >= max_results THEN acc
           ELSE IF r.raised
             THEN [acc EXCEPT
                     !.raised = TRUE,
                     !.candidates = <<>>,
                     !.state.topic_repos_seen = @ \cup {repo},
                     !.scanned = Append(@, repo)]
           ELSE ScanRepos(Tail(repos),
                  [acc EXCEPT
                     !.candidates = @ \o r.urls,
                     !.state.topic_repos_seen = @ \cup {repo},
                     !.state.repos_searched = @ \cup {repo},
                     !.scanned = Append(@, repo)],
                  max_results, ans)

\* discover, "for topic in self.topics": ends at max_results; a topic search
\* that fails on the network finds no repository; one answered with a body
\* that is no JSON object raises, and discover ends there.
RECURSIVE ScanTopics(_, _, _, _)
ScanTopics(i, acc, max_results, ans) ==
  IF i > Len(GithubTopics) \/ acc.raised THEN acc
  ELSE IF Len(acc.candidates) >= max_results THEN acc
  ELSE LET topic == GithubTopics[i]
           repos == IF ans.topic[topic] = "ok" THEN TopicRepos(topic) ELSE <<>>
       IN  IF AnswerRaises(ans.topic[topic])
             THEN [acc EXCEPT !.raised = TRUE, !.candidates = <<>>]
           ELSE ScanTopics(i + 1, ScanRepos(repos, acc, max_results, ans), max_results, ans)

\* GitHubSource.discover(state): code search of the state's page, the page
\* advanced when there are more, then the topic search; returns the
\* candidates and the state, or raises and leaves the state object as far
\* as it has changed it.  scanned lists the repositories handed to
\* search_repo_for_aasx, in order.
GithubDiscover(gs, max_results, ans) ==
  IF AnswerRaises(ans.code)
    THEN [raised |-> TRUE, candidates |-> <<>>, state |-> gs, scanned |-> <<>>]
  ELSE LET page == gs.code_search_page
           found == ans.code = "ok" /\ page <= Len(GithubCodePages)
       IN  ScanTopics(1,
             [raised |-> FALSE,
              candidates |-> IF found THEN GithubCodePages[page] ELSE <<>>,
              state |-> [gs EXCEPT !.code_search_page =
                           IF ans.code = "ok" /\ HasMore(page) THEN page + 1 ELSE page],
              scanned |-> <<>>],
             max_results, ans)

NoGithubCall ==
  [called |-> FALSE, max_results |-> 0, raised |-> FALSE, candidates |-> <<>>,
   scanned |-> <<>>, before |-> {}]

InitGithub ==
  /\ gh_cursor = 0
  /\ gh_prev = {}
  /\ gh_last = NoGithubCall

\* The GitHub part of discover_candidates in one run: a new GitHubSearchState
\* with the page of state.github_cursor, discover_github, and the page stored
\* back in state.github_cursor, which is all of the search state that
\* HarvestState keeps.
GithubRun ==
  \E max_results \in 0..MaxResults, ans \in GithubAnswers :
    LET gs == NewGitHubSearchState(IF gh_cursor # 0 THEN gh_cursor ELSE 1)
        r == GithubDiscover(gs, max_results, ans)
    IN  /\ gh_cursor' = IF r.raised THEN gh_cursor ELSE r.state.code_search_page
        /\ gh_prev' = gh_prev \cup { r.scanned[i] : i \in DOMAIN r.scanned }
        /\ gh_last' = [called |-> TRUE, max_results |-> max_results, raised |-> r.raised,
                       candidates |-> r.candidates, scanned |-> r.scanned,
                       before |-> gh_prev]

(***************************************************************************)
(* sources/seeds.py : _is_domain_allowed.  Strings are sequences of         *)
(* characters; a URL is given by the parts of its authority, from which    *)
(* urlparse(url).netloc is put together.                                   *)
(***************************************************************************)
\* str.lower() on the characters that occur.
LowerChar(c) == IF c = "A" THEN "a" ELSE IF c = "C" THEN "c" ELSE c
Lower(s) == [i \in 1..Len(s) |-> LowerChar(s[i])]

\* str.endswith
EndsWith(s, suffix) ==
  /\ Len(suffix) <= Len(s)
  /\ SubSeq(s, Len(s) - Len(suffix) + 1, Len(s)) = suffix

\* Host names: a.c, A.c, x.a.c, xa.c, a.c.x, c, a.C and ac.
HostNames ==
  { <<"a", ".", "c">>, <<"A", ".", "c">>, <<"x", ".", "a", ".", "c">>,
    <<"x", "a", ".", "c">>, <<"a", ".", "c", ".", "x">>, <<"c">>,
    <<"a", ".", "C">>, <<"a", "c">> }
\* The port of a URL, when it names one, and its user part.
Ports == { <<>>, <<"8">> }
UserInfos == { <<>>, <<"u">> }
UrlAuthorities == [userinfo : UserInfos, host : HostNames, port : Ports]
\* The entries an allowlist is made of: a.c, A.C and x.
AllowEntries == { <<"a", ".", "c">>, <<"A", ".", "C">>, <<"x">> }

\* urlparse(url).netloc: [userinfo@]host[:port]
Netloc(url) ==
  (IF url.userinfo # <<>> THEN url.userinfo \o <<"@">> ELSE <<>>)
    \o url.host
    \o (IF url.port # <<>> THEN <<":">> \o url.port ELSE <<>>)

\* _is_domain_allowed(url, allowed_domains)
IsDomainAllowed(url, allowed_domains) ==
  IF allowed_domains = {} THEN TRUE
  ELSE LET domain == Lower(Netloc(url))
       IN  \E allowed \in allowed_domains :
             \/ domain = Lower(allowed)
             \/ EndsWith(domain, <<".">> \o Lower(allowed))

NoAllowCall == [called |-> FALSE, url |-> [userinfo |-> <<>>, host |-> <<>>, port |-> <<>>],
                allowed_domains |-> {}, result |-> FALSE]

InitAllowlist == al_last = NoAllowCall

\* One call of _is_domain_allowed.
CheckAllowed ==
  \E url \in UrlAuthorities, allowed_domains \in SUBSET AllowEntries :
    al_last' = [called |-> TRUE, url |-> url, allowed_domains |-> allowed_domains,
                result |-> IsDomainAllowed(url, allowed_domains)]

(***************************************************************************)
(* sources/seeds.py : _extract_aasx_links, SeedSource.crawl_seed            *)
(***************************************************************************)
MaxLinks == 3

\* The seed page, https://a.c/samples.
SeedUrl == [auth |-> [userinfo |-> <<>>, host |-> <<"a", ".", "c">>, port |-> <<>>],
            path |-> "samples"]

\* The absolute URLs the links of a page can lead to, in the order of their
\* strings: https://a.c/f.aasx, https://a.c:8/f.aasx, https://x.a.c/g.AASX,
\* https://z.e/f.aasx.  The position in this list is the key that sorted()
\* orders by.
LinkTargets ==
  << [auth |-> [userinfo |-> <<>>, host |-> <<"a", ".", "c">>, port |-> <<>>], path |-> "f.aasx"],
     [auth |-> [userinfo |-> <<>>, host |-> <<"a", ".", "c">>, port |-> <<"8">>], path |-> "f.aasx"],
     [auth |-> [userinfo |-> <<>>, host |-> <<"x", ".", "a", ".", "c">>, port |-> <<>>], path |-> "g.AASX"],
     [auth |-> [userinfo |-> <<>>, host |-> <<"z", ".", "e">>, port |-> <<>>], path |-> "f.aasx"] >>

\* The href attributes a page can hold: a relative one ("f.aasx"), the four
\* absolute URLs, and a link to a file of another type (https://a.c/f.txt).
\* target is the place in LinkTargets of urljoin(base_url, href); matches
\* tells whether the link pattern, href="....aasx" without regard to case,
\* finds the attribute.
Hrefs ==
  { [text |-> "f.aasx", target |-> 1, matches |-> TRUE],
    [text |-> "https://a.c/f.aasx", target |-> 1, matches |-> TRUE],
    [text |-> "https://a.c:8/f.aasx", target |-> 2, matches |-> TRUE],
    [text |-> "https://x.a.c/g.AASX", target |-> 3, matches |-> TRUE],
    [text |-> "https://z.e/f.aasx", target |-> 4, matches |-> TRUE],
    [text |-> "https://a.c/f.txt", target |-> 0, matches |-> FALSE] }

\* A page: its href attributes in the order of the text.
Pages == UNION { [1..n -> Hrefs] : n \in 0..MaxLinks }
\* The allowlists of SOURCES.yml: none, or a.c.
SeedAllowlists == { {}, { <<"a", ".", "c">> } }

\* _extract_aasx_links(html, base_url): the set of urljoin(base_url, href)
\* over the matches, sorted.
RECURSIVE SortedFrom(_, _)
SortedFrom(i, found) ==
  IF i > Len(LinkTargets) THEN <<>>
  ELSE (IF i \in found THEN <<LinkTargets[i]>> ELSE <<>>) \o SortedFrom(i + 1, found)
ExtractAasxLinks(html) ==
  SortedFrom(1, { html[k].target : k \in { j \in DOMAIN html : html[j].matches } })

\* crawl_seed, "for link in links": a SeedCandidate for each link that
\* _is_domain_allowed accepts; to_dict gives it source_type "seed".
RECURSIVE SeedCandidates(_, _, _)
SeedCandidates(links, seed_url, allowed_domains) ==
  IF links = <<>> THEN <<>>
  ELSE (IF IsDomainAllowed(Head(links).auth, allowed_domains)
          THEN << [url |-> Head(links), source_type |-> "seed", source_ref |-> seed_url] >>
          ELSE <<>>)
       \o SeedCandidates(Tail(links), seed_url, allowed_domains)

\* SeedSource.crawl_seed(seed): no candidates when fetch_page returns None
\* (request failed) or an empty page.
crawl_seed(seed_url, fetched, html, allowed_domains) ==
  IF ~fetched \/ html = <<>> THEN <<>>
  ELSE SeedCandidates(ExtractAasxLinks(html), seed_url, allowed_domains)

NoSeedCall == [called |-> FALSE, fetched |-> FALSE, html |-> <<>>, allowed_domains |-> {},
               candidates |-> <<>>]

InitSeeds == seed_last = NoSeedCall

\* One call of crawl_seed on the seed page.
CrawlSeed ==
  \E fetched \in BOOLEAN, html \in Pages, allowed_domains \in SeedAllowlists :
    seed_last' = [called |-> TRUE, fetched |-> fetched, html |-> html,
                  allowed_domains |-> allowed_domains,
                  candidates |-> crawl_seed(SeedUrl, fetched, html, allowed_domains)]

(***************************************************************************)
(* sources/commoncrawl.py : CommonCrawlSource.search_aasx_urls              *)
(***************************************************************************)
MaxRecords == 2

\* The URLs of the CDX records: the four of LinkTargets and one that is not
\* an .aasx file.
CdxUrls ==
  { LinkTargets[i] : i \in DOMAIN LinkTargets }
    \cup { [auth |-> [userinfo |-> <<>>, host |-> <<"a", ".", "c">>, port |-> <<>>],
            path |-> "f.txt"] }
\* url.lower().endswith(".aasx")
EndsWithAasx(url) == url.path \in {"f.aasx", "g.AASX"}
\* _get_domain_from_url: urlparse(url).netloc.lower()
DomainOf(url) == Lower(Netloc(url.auth))

\* What query_cdx returns: the records of the answer and the next-page
\* token (0: none); no record and no token when the request failed.
CdxAnswers ==
  [ok : BOOLEAN, records : UNION { [1..n -> CdxUrls] : n \in 0..MaxRecords },
   next_cursor : {0, 1}]

\* CommonCrawlState()
NewCommonCrawlState == [last_cursor |-> 0, discovered_domains |-> {}, processed_urls |-> {}]

\* Mutant: a URL already processed is offered again.
ScanRecords_NoSkip(records, acc, max_results, allowed_domains) ==
  IF records = <<>> THEN acc
  ELSE [acc EXCEPT !.candidates = @ \o records,
                   !.state.processed_urls = @ \cup { records[i] : i \in DOMAIN records }]

\* search_aasx_urls, "for record in results": a processed URL and a URL of
\* another type are passed over, the domain is noted, a URL off the
\* allowlist is passed over, a candidate is appended and its URL marked
\* processed; the loop ends when max_results candidates are there.
RECURSIVE ScanRecords(_, _, _, _)
ScanRecords(records, acc, max_results, allowed_domains) ==
  IF records = <<>> THEN acc
  ELSE LET url == Head(records)
           noted == [acc EXCEPT !.state.discovered_domains = @ \cup {DomainOf(url)}]
           added == [noted EXCEPT !.candidates = Append(@, url),
                                  !.state.processed_urls = @ \cup {url}]
       IN  IF url \in acc.state.processed_urls
             THEN ScanRecords(Tail(records), [acc EXCEPT !.skipped = @ + 1],
                              max_results, allowed_domains)
           ELSE IF ~EndsWithAasx(url)
             THEN ScanRecords(Tail(records), acc, max_results, allowed_domains)
           ELSE IF allowed_domains # {} /\ ~IsDomainAllowed(url.auth, allowed_domains)
             THEN ScanRecords(Tail(records), noted, max_results, allowed_domains)
           ELSE IF Len(added.candidates) >= max_results THEN added
           ELSE ScanRecords(Tail(records), added, max_results, allowed_domains)

\* CommonCrawlSource.search_aasx_urls(state): query_cdx, the loop, then
\* state.last_cursor = next_cursor.
search_aasx_urls(st, answer, max_results, allowed_domains) ==
  LET results == IF answer.ok THEN answer.records ELSE <<>>
      next_cursor == IF answer.ok THEN answer.next_cursor ELSE 0
      r == ScanRecords(results, [candidates |-> <<>>, state |-> st, skipped |-> 0],
                       max_results, allowed_domains)
  IN  [r EXCEPT !.state.last_cursor = next_cursor]

NoCdxCall == [called |-> FALSE, before |-> {}, candidates |-> <<>>, skipped |-> 0]

InitCommonCrawl ==
  /\ cc_state = NewCommonCrawlState
  /\ cc_last = NoCdxCall

\* One discovery of the Common Crawl source on the state of the one before.
SearchAasxUrls ==
  \E answer \in CdxAnswers, max_results \in 0..MaxRecords, allowed_domains \in SeedAllowlists :
    LET r == search_aasx_urls(cc_state, answer, max_results, allowed_domains)
    IN  /\ cc_state' = r.state
        /\ cc_last' = [called |-> TRUE, before |-> cc_state.processed_urls,
                       candidates |-> r.candidates, skipped |-> r.skipped]

(***************************************************************************)
(* __main__.py : discover_candidates, the Common Crawl pass of a run, on   *)
(* a CDX index that stays as it is.  Each pass starts from a new           *)
(* CommonCrawlState that holds the persisted cursor and nothing else.      *)
(***************************************************************************)
MaxPageLen == 2
MaxPages == 2

\* The URLs the index lists: https://a.c/f.aasx, https://x.a.c/g.AASX and
\* https://z.e/f.aasx, which the allowlist a.c leaves out.
IndexUrls == { LinkTargets[1], LinkTargets[3], LinkTargets[4] }
IndexPages == UNION { [1..n -> IndexUrls] : n \in 0..MaxPageLen }
\* An index: its pages in the order of the next-page tokens.
Indexes == UNION { [1..n -> IndexPages] : n \in 1..MaxPages }
NoIndex == <<>>

\* query_cdx(cursor=...) on the index: without a cursor the first page,
\* with the token k the page after the k-th; the answer carries the token
\* of the page it is, unless it is the last.
PageNumber(cursor) == cursor + 1
CdxAnswer(index, cursor) ==
  LET p == PageNumber(cursor)
  IN  [ok |-> TRUE,
       records |-> IF p <= Len(index) THEN index[p] ELSE <<>>,
       next_cursor |-> IF p < Len(index) THEN p ELSE 0]
\* query_cdx when the request fails: return [], None
CdxFailure == [ok |-> FALSE, records |-> <<>>, next_cursor |-> 0]

\* query_cdx asks for limit = min(max_results * 2, 200) records, and the
\* index sends no more than that.
CdxLimit(max_results) == Min(max_results * 2, 200)

\* A record that passes the extension and allowlist filters.
Eligible(url, allowed_domains) ==
  /\ EndsWithAasx(url)
  /\ allowed_domains = {} \/ IsDomainAllowed(url.auth, allowed_domains)

\* discover_candidates, "# Common Crawl source": cc_state = CommonCrawlState(),
\* cc_state.last_cursor = state.commoncrawl_cursor, discover_commoncrawl,
\* state.commoncrawl_cursor = new_cc_state.last_cursor.
CommonCrawlPass(cursor, answer, max_results, allowed_domains) ==
  LET cc == [NewCommonCrawlState EXCEPT !.last_cursor = cursor]
      r == search_aasx_urls(cc, answer, max_results, allowed_domains)
  IN  [candidates |-> r.candidates, cursor |-> r.state.last_cursor]

NoCdxPass == [called |-> FALSE, failed |-> FALSE, cursor_before |-> 0, candidates |-> <<>>]

InitCdx ==
  /\ cx_index = NoIndex
  /\ cx_config = [max_web |-> 1, allowed_domains |-> {}]
  /\ cx_cursor = 0
  /\ cx_pending = {}
  /\ cx_last = NoCdxPass

\* The index and the configuration the runs work with.
CdxPublish ==
  /\ cx_index = NoIndex
  /\ \E index \in Indexes, m \in 1..MaxPageLen, a \in SeedAllowlists :
       /\ \A p \in 1..Len(index) : Len(index[p]) <= CdxLimit(m)
       /\ cx_index' = index
       /\ cx_config' = [max_web |-> m, allowed_domains |-> a]
  /\ UNCHANGED <<cx_cursor, cx_pending, cx_last>>

\* A run whose CDX request is answered, and which saves its state.
CdxPass ==
  /\ cx_index # NoIndex
  /\ LET answer == CdxAnswer(cx_index, cx_cursor)
         r == CommonCrawlPass(cx_cursor, answer, cx_config.max_web,
                              cx_config.allowed_domains)
         returned == { r.candidates[i] : i \in 1..Len(r.candidates) }
         unconsumed == { answer.records[i] : i \in 1..Len(answer.records) } \ returned
     IN  /\ cx_cursor' = r.cursor
         /\ cx_pending' = (cx_pending \ returned)
                            \cup { u \in unconsumed : Eligible(u, cx_config.allowed_domains) }
         /\ cx_last' = [called |-> TRUE, failed |-> FALSE, cursor_before |-> cx_cursor,
                        candidates |-> r.candidates]
  /\ UNCHANGED <<cx_index, cx_config>>

\* A run whose CDX request fails, and which saves its state.
CdxPassFailed ==
  /\ cx_index # NoIndex
  /\ LET r == CommonCrawlPass(cx_cursor, CdxFailure, cx_config.max_web,
                              cx_config.allowed_domains)
     IN  /\ cx_cursor' = r.cursor
         /\ cx_last' = [called |-> TRUE, failed |-> TRUE, cursor_before |-> cx_cursor,
                        candidates |-> r.candidates]
  /\ UNCHANGED <<cx_index, cx_config, cx_pending>>

(***************************************************************************)
(* sources/sitemap.py : SitemapSource.crawl_sitemap.  The recursion is     *)
(* kept as the stack of calls in progress; each call is first entered      *)
(* (depth test, fetch, parse) and then runs its loop over the nested       *)
(* sitemaps.                                                               *)
(***************************************************************************)
MaxNested == 6

\* "if depth > 2"
SitemapDepthLimit == 2
\* "nested_sitemaps[:5]"
NestedLimit == 5

SitemapUrls == {"s1", "s2"}
\* The sitemap documents of a site: each lists a number of nested sitemaps,
\* here all the same URL, so that s1 may list itself, or s2 which lists s1.
SitemapGraphs ==
  [SitemapUrls -> [target : SitemapUrls, count : {0, 1, MaxNested}]]
\* _parse_sitemap_xml(content)[1]: the nested sitemaps of a document.
NestedSitemaps(graph, url) == [i \in 1..graph[url].count |-> graph[url].target]

\* Mutant: the recursion has no depth limit.
DepthExceeded_Never(depth) == FALSE

\* "if depth > 2: return []"
DepthExceeded(depth) == depth > SitemapDepthLimit

InitSitemap ==
  /\ sm_graph = [u \in SitemapUrls |-> [target |-> u, count |-> 0]]
  /\ sm_stack = <<>>
  /\ sm_fetches = 0
  /\ sm_running = FALSE

\* discover_site calls crawl_sitemap(sitemap_url) on a site.
CrawlSitemapCall ==
  /\ ~sm_running
  /\ \E graph \in SitemapGraphs : sm_graph' = graph
  /\ sm_stack' = << [url |-> "s1", depth |-> 0, entered |-> FALSE, nested |-> <<>>] >>
  /\ sm_fetches' = 0
  /\ sm_running' = TRUE

\* The innermost call begins: it returns at once beyond the depth limit,
\* fetches the sitemap, returns when the fetch failed, and else parses it and
\* keeps the first NestedLimit nested sitemaps for its loop.
CrawlSitemapEnter ==
  /\ sm_running
  /\ sm_stack # <<>>
  /\ LET n == Len(sm_stack)
         top == sm_stack[n]
         nested == NestedSitemaps(sm_graph, top.url)
     IN  /\ ~top.entered
         /\ IF DepthExceeded(top.depth)
              THEN /\ sm_stack' = SubSeq(sm_stack, 1, n - 1)
                   /\ sm_fetches' = sm_fetches
              ELSE /\ sm_fetches' = sm_fetches + 1
                   /\ \E fetched \in BOOLEAN :
                        sm_stack' =
                          IF ~fetched THEN SubSeq(sm_stack, 1, n - 1)
                          ELSE [sm_stack EXCEPT ![n] =
                                  [top EXCEPT !.entered = TRUE,
                                              !.nested = SubSeq(nested, 1,
                                                           Min(Len(nested), NestedLimit))]]
         /\ sm_running' = (sm_stack' # <<>>)
  /\ UNCHANGED sm_graph

\* "for nested in nested_sitemaps[:5]": the innermost call calls itself on
\* the next nested sitemap, or returns when there is none left.
CrawlSitemapLoop ==
  /\ sm_running
  /\ sm_stack # <<>>
  /\ LET n == Len(sm_stack)
         top == sm_stack[n]
     IN  /\ top.entered
         /\ IF top.nested = <<>>
              THEN sm_stack' = SubSeq(sm_stack, 1, n - 1)
              ELSE sm_stack' =
                     Append([sm_stack EXCEPT ![n] = [top EXCEPT !.nested = Tail(@)]],
                            [url |-> Head(top.nested), depth |-> top.depth + 1,
                             entered |-> FALSE, nested |-> <<>>])
         /\ sm_running' = (sm_stack' # <<>>)
  /\ UNCHANGED <<sm_graph, sm_fetches>>

(***************************************************************************)
(* Specifications                                                          *)
(***************************************************************************)
InitSources == InitGithub /\ InitAllowlist /\ InitSeeds /\ InitCommonCrawl
    /\ InitCdx /\ InitSitemap /\ InitRetry

Init ==
  InitRL /\ InitBackoff /\ InitLimiter /\ InitZip /\ InitDL /\ InitRun /\ InitSources

NextRateLimiter ==
  \/ Tick /\ UNCHANGED <<bovars, lmvars, zipvars, dlvars, runvars, srcvars>>
  \/ \E c \in Callers : AcquireAsyncStart(c) /\ UNCHANGED <<bovars, lmvars, zipvars, dlvars, runvars, srcvars>>
  \/ \E c \in Callers : AcquireAsyncResume(c) /\ UNCHANGED <<bovars, lmvars, zipvars, dlvars, runvars, srcvars>>
  \/ \E c \in Callers : WaitSyncStart(c) /\ UNCHANGED <<bovars, lmvars, zipvars, dlvars, runvars, srcvars>>
  \/ \E c \in Callers : WaitSyncResume(c) /\ UNCHANGED <<bovars, lmvars, zipvars, dlvars, runvars, srcvars>>

NextAsync ==
  \/ Tick /\ UNCHANGED <<bovars, lmvars, zipvars, dlvars, runvars, srcvars>>
  \/ \E c \in Callers : AcquireAsyncStart(c) /\ UNCHANGED <<bovars, lmvars, zipvars, dlvars, runvars, srcvars>>
  \/ \E c \in Callers : AcquireAsyncResume(c) /\ UNCHANGED <<bovars, lmvars, zipvars, dlvars, runvars, srcvars>>

NextBackoff ==
  \/ \E s \in CalledSources : BackoffFailure(s) /\ UNCHANGED <<rlvars, lmvars, zipvars, dlvars, runvars, srcvars>>
  \/ \E s \in CalledSources : BackoffSuccess(s) /\ UNCHANGED <<rlvars, lmvars, zipvars, dlvars, runvars, srcvars>>
  \/ \E s \in CalledSources, status \in StatusCodes :
       HandleResponse(s, status) /\ UNCHANGED <<rlvars, lmvars, zipvars, dlvars, runvars, srcvars>>

NextLimiter ==
  \/ Tick /\ UNCHANGED <<bovars, lmvars, zipvars, dlvars, runvars, srcvars>>
  \/ \E s \in CalledSources : LimWaitSync(s) /\ UNCHANGED <<bovars, zipvars, dlvars, runvars, srcvars>>
  \/ \E c \in Callers, s \in CalledSources :
       LimAcquireStart(c, s) /\ UNCHANGED <<bovars, zipvars, dlvars, runvars, srcvars>>
  \/ \E c \in Callers : LimAcquireResume(c) /\ UNCHANGED <<bovars, zipvars, dlvars, runvars, srcvars>>

NextZip ==
  \/ InspectZip /\ UNCHANGED <<bovars, lmvars, rlvars, dlvars, runvars, srcvars>>
  \/ InspectDone /\ UNCHANGED <<bovars, lmvars, rlvars, dlvars, runvars, srcvars>>

NextDownload ==
  \/ DLStart /\ UNCHANGED <<bovars, lmvars, zipvars, runvars, srcvars>>
  \/ DLStartAsync /\ UNCHANGED <<bovars, lmvars, zipvars, runvars, srcvars>>
  \/ DLAcquired /\ UNCHANGED <<bovars, lmvars, zipvars, runvars, srcvars>>
  \/ DLHead /\ UNCHANGED <<bovars, lmvars, rlvars, zipvars, runvars, srcvars>>
  \/ DLGetRedirects /\ UNCHANGED <<bovars, lmvars, rlvars, zipvars, runvars, srcvars>>
  \/ DLGetError /\ UNCHANGED <<bovars, lmvars, rlvars, zipvars, runvars, srcvars>>
  \/ DLGet /\ UNCHANGED <<bovars, lmvars, rlvars, zipvars, runvars, srcvars>>
  \/ DLStream /\ UNCHANGED <<bovars, lmvars, rlvars, zipvars, runvars, srcvars>>
  \/ DLStreamError /\ UNCHANGED <<bovars, lmvars, rlvars, zipvars, runvars, srcvars>>
  \/ DLCheck /\ UNCHANGED <<bovars, lmvars, rlvars, zipvars, runvars, srcvars>>
  \/ DLReturn /\ UNCHANGED <<bovars, lmvars, rlvars, zipvars, runvars, srcvars>>

Next ==
  \/ RunLoad /\ UNCHANGED <<bovars, lmvars, rlvars, zipvars, dlvars, srcvars>>
  \/ RunDiscover /\ UNCHANGED <<bovars, lmvars, rlvars, zipvars, dlvars, srcvars>>
  \/ RunDedup /\ UNCHANGED <<bovars, lmvars, rlvars, zipvars, dlvars, srcvars>>
  \/ RunDryReturn /\ UNCHANGED <<bovars, lmvars, rlvars, zipvars, dlvars, srcvars>>
  \/ RunProcess /\ UNCHANGED <<bovars, lmvars, rlvars, zipvars, dlvars, srcvars>>
  \/ RunMerge /\ UNCHANGED <<bovars, lmvars, rlvars, zipvars, dlvars, srcvars>>
  \/ RunMergeDump /\ UNCHANGED <<bovars, lmvars, rlvars, zipvars, dlvars, srcvars>>
  \/ RunMergeWrite /\ UNCHANGED <<bovars, lmvars, rlvars, zipvars, dlvars, srcvars>>
  \/ RunMergeNewline /\ UNCHANGED <<bovars, lmvars, rlvars, zipvars, dlvars, srcvars>>
  \/ RunSaveOpen /\ UNCHANGED <<bovars, lmvars, rlvars, zipvars, dlvars, srcvars>>
  \/ RunSave /\ UNCHANGED <<bovars, lmvars, rlvars, zipvars, dlvars, srcvars>>
  \/ RunPublish /\ UNCHANGED <<bovars, lmvars, rlvars, zipvars, dlvars, srcvars>>
  \/ \E f \in ArtifactNames :
       RunPublishWrite(f) /\ UNCHANGED <<bovars, lmvars, rlvars, zipvars, dlvars, srcvars>>
  \/ \E f \in ArtifactNames :
       RunPublishOpen(f) /\ UNCHANGED <<bovars, lmvars, rlvars, zipvars, dlvars, srcvars>>
  \/ RunExit /\ UNCHANGED <<bovars, lmvars, rlvars, zipvars, dlvars, srcvars>>
  \/ Crash /\ UNCHANGED <<bovars, lmvars, rlvars, zipvars, dlvars, srcvars>>
  \/ Interrupt /\ UNCHANGED <<bovars, lmvars, rlvars, zipvars, dlvars, srcvars>>
  \/ EnvStateFileMissing /\ UNCHANGED <<bovars, lmvars, rlvars, zipvars, dlvars, srcvars>>
  \/ EnvStateFileStale /\ UNCHANGED <<bovars, lmvars, rlvars, zipvars, dlvars, srcvars>>

\* The harvest runs and the calls of the storage's own interface.
NextCatalog ==
  \/ Next
  \/ CatalogAppend /\ UNCHANGED <<bovars, lmvars, rlvars, zipvars, dlvars, srcvars>>

NextGithub ==
  \/ GithubRun /\ UNCHANGED <<rlvars, bovars, lmvars, zipvars, dlvars, runvars, rqvars, fnvars, ccvars, smvars>>

NextAllowlist ==
  \/ CheckAllowed /\ UNCHANGED <<rlvars, bovars, lmvars, zipvars, dlvars, runvars, rqvars, ghvars, ccvars, smvars, seed_last>>

NextSeeds ==
  \/ CrawlSeed /\ UNCHANGED <<rlvars, bovars, lmvars, zipvars, dlvars, runvars, rqvars, ghvars, ccvars, smvars, al_last>>

NextCommonCrawl ==
  \/ SearchAasxUrls /\ UNCHANGED <<rlvars, bovars, lmvars, zipvars, dlvars, runvars, rqvars, ghvars, fnvars, smvars, cxvars>>

NextCdx ==
  \/ CdxPublish /\ UNCHANGED <<rlvars, bovars, lmvars, zipvars, dlvars, runvars, rqvars, ghvars, fnvars, smvars, cc_state, cc_last>>
  \/ CdxPass /\ UNCHANGED <<rlvars, bovars, lmvars, zipvars, dlvars, runvars, rqvars, ghvars, fnvars, smvars, cc_state, cc_last>>
  \/ CdxPassFailed /\ UNCHANGED <<rlvars, bovars, lmvars, zipvars, dlvars, runvars, rqvars, ghvars, fnvars, smvars, cc_state, cc_last>>

NextSitemap ==
  \/ CrawlSitemapCall /\ UNCHANGED <<rlvars, bovars, lmvars, zipvars, dlvars, runvars, rqvars, ghvars, fnvars, ccvars>>
  \/ CrawlSitemapEnter /\ UNCHANGED <<rlvars, bovars, lmvars, zipvars, dlvars, runvars, rqvars, ghvars, fnvars, ccvars>>
  \/ CrawlSitemapLoop /\ UNCHANGED <<rlvars, bovars, lmvars, zipvars, dlvars, runvars, rqvars, ghvars, fnvars, ccvars>>

SpecRateLimiter == Init /\ [][NextRateLimiter]_vars
SpecAsync == Init /\ [][NextAsync]_vars
NextRetry ==
  \/ \E s \in CalledSources, m \in 0..MaxRetries :
       RqStart(s, m) /\ UNCHANGED <<zipvars, dlvars, runvars, ghvars, fnvars, ccvars, smvars>>
  \/ RqLoop /\ UNCHANGED <<zipvars, dlvars, runvars, ghvars, fnvars, ccvars, smvars>>
  \/ RqAcquired /\ UNCHANGED <<zipvars, dlvars, runvars, ghvars, fnvars, ccvars, smvars>>
  \/ \E o \in RequestOutcomes :
       RqCall(o) /\ UNCHANGED <<zipvars, dlvars, runvars, ghvars, fnvars, ccvars, smvars>>
  \/ RqSlept /\ UNCHANGED <<zipvars, dlvars, runvars, ghvars, fnvars, ccvars, smvars>>
  \/ RqCancel /\ UNCHANGED <<zipvars, dlvars, runvars, ghvars, fnvars, ccvars, smvars>>
  \/ RqReturn /\ UNCHANGED <<zipvars, dlvars, runvars, ghvars, fnvars, ccvars, smvars>>

SpecBackoff == Init /\ [][NextBackoff]_vars
SpecLimiter == Init /\ [][NextLimiter]_vars
SpecZip == Init /\ [][NextZip]_vars
SpecDownload == Init /\ [][NextDownload]_vars
SpecAllowlist == Init /\ [][NextAllowlist]_vars
SpecSeeds == Init /\ [][NextSeeds]_vars
SpecCommonCrawl == Init /\ [][NextCommonCrawl]_vars
\* The harvester is run again and again, and the index answers again and
\* again: there is always a later pass whose request is answered.
SpecCdx ==
  Init /\ [][NextCdx]_vars
    /\ WF_vars(CdxPass /\ UNCHANGED <<rlvars, bovars, lmvars, zipvars, dlvars, runvars, rqvars, ghvars, fnvars, smvars, cc_state, cc_last>>)
\* crawl_sitemap is sequential code whose requests end (REQUEST_TIMEOUT_SECONDS):
\* a call in progress takes its next step.
SpecSitemap ==
  Init /\ [][NextSitemap]_vars
    /\ WF_vars(CrawlSitemapEnter /\ UNCHANGED <<rlvars, bovars, lmvars, zipvars, dlvars, runvars, rqvars, ghvars, fnvars, ccvars>>)
    /\ WF_vars(CrawlSitemapLoop /\ UNCHANGED <<rlvars, bovars, lmvars, zipvars, dlvars, runvars, rqvars, ghvars, fnvars, ccvars>>)
SpecGithub == Init /\ [][NextGithub]_vars
Spec == Init /\ [][Next]_vars
SpecCatalog == Init /\ [][NextCatalog]_vars

\* rate_limited_request with an event loop that resumes the coroutine: an
\* acquisition ends, and request_func returns or raises.
SpecRetry ==
  /\ Init
  /\ [][NextRetry]_vars
  /\ WF_vars(RqLoop /\ UNCHANGED <<zipvars, dlvars, runvars, ghvars, fnvars, ccvars, smvars>>)
  /\ WF_vars(RqAcquired /\ UNCHANGED <<zipvars, dlvars, runvars, ghvars, fnvars, ccvars, smvars>>)
  /\ WF_vars(\E o \in RequestOutcomes :
       RqCall(o) /\ UNCHANGED <<zipvars, dlvars, runvars, ghvars, fnvars, ccvars, smvars>>)
  /\ WF_vars(RqSlept /\ UNCHANGED <<zipvars, dlvars, runvars, ghvars, fnvars, ccvars, smvars>>)

(***************************************************************************)
(* Properties                                                              *)
(***************************************************************************)

\* C1 (as stated): whenever download_file ends on a response whose body is
\* longer than the byte budget, it has raised FileTooLargeError and no file
\* is left in the destination directory, whatever the HEAD probe answered.
C1_AnyLongBodyAborts ==
  (dl_pc = "done" /\ dl_resp # NoResp /\ dl_resp.body > dl_args.max_bytes)
    => (dl_result.kind = "FileTooLargeError" /\ dl_file = NoFile)

\* The file name or the content type of the response indicates an archive:
\* the name ends in .zip or .aasx, in whatever case it is written (the
\* discovery sources pick their candidates by the lower-cased name), or the
\* content type is one of the two an archive is served with.
ArchiveIndicated ==
  \/ dl_resp.filename.ext \in {".zip", ".ZIP", ".aasx", ".AASX"}
  \/ dl_resp.ctype \in {"application/zip", "application/octet-stream"}

\* C2 (as stated): with check_zip enabled, a DownloadResult for a file whose
\* name or content type indicates an archive is returned only after
\* inspect_zip judged the file safe; after an unsafe verdict the file is gone
\* and the call has raised ZipBombError with the inspection's reason.
C2_ArchiveInspected ==
  /\ (/\ dl_pc = "done"
      /\ dl_result.kind = "DownloadResult"
      /\ dl_args.check_zip
      /\ ArchiveIndicated)
       => (dl_insp # NoInspection /\ dl_insp.is_safe)
  /\ (dl_pc = "done" /\ dl_insp # NoInspection /\ ~dl_insp.is_safe)
       => /\ dl_file = NoFile
          /\ dl_result.kind = "ZipBombError"
          /\ dl_result.detail = dl_insp.reason
          /\ dl_result.detail # <<>>

\* C3: for a readable archive, inspect_zip reports the sums of its central
\* directory, is unsafe exactly when one of the three caps is exceeded, and
\* its reason lists every exceeded cap (none when safe).
C3_ZipVerdict ==
  (zip_result # NoInspection /\ zip_archive # BadZip /\ ~ZipRaises(zip_archive)) =>
    LET count == zip_result.entry_count
        tu == zip_result.total_uncompressed
        tc == zip_result.total_compressed
        manyEntries == count > MAX_ZIP_ENTRIES
        tooLarge == tu > MAX_UNCOMPRESSED_BYTES
        highRatio == /\ tc > 0
                     /\ \/ tu \div tc > MAX_COMPRESSION_RATIO
                        \/ tu \div tc = MAX_COMPRESSION_RATIO /\ tu % tc > 0
        named(r) == \E i \in DOMAIN zip_result.reason : zip_result.reason[i] = r
    IN  /\ count = EntryCount(zip_archive)
        /\ tc = TotalCompressed(zip_archive)
        /\ tu = TotalUncompressed(zip_archive)
        /\ zip_result.is_safe <=> ~(manyEntries \/ tooLarge \/ highRatio)
        /\ named("Too many entries") <=> manyEntries
        /\ named("Uncompressed size too large") <=> tooLarge
        /\ named("Suspicious compression ratio") <=> highRatio
        /\ Len(zip_result.reason) =
             (IF manyEntries THEN 1 ELSE 0) + (IF tooLarge THEN 1 ELSE 0)
             + (IF highRatio THEN 1 ELSE 0)
        /\ zip_result.is_safe => zip_result.reason = <<>>

\* C3 witness: an archive that exceeds all three caps, with all three named.
C3_Witness ==
  /\ zip_archive # BadZip
  /\ ~ZipRaises(zip_archive)
  /\ zip_result.entry_count > MAX_ZIP_ENTRIES
  /\ ~zip_result.is_safe
  /\ zip_result.reason = <<"Too many entries", "Uncompressed size too large",
                           "Suspicious compression ratio">>

\* The ids of a sequence of catalog entries.
IdsOf(entries) == { entries[i].id : i \in DOMAIN entries }

\* The last entry of a sequence that carries the given id.
LastWithId(entries, id) ==
  entries[CHOOSE k \in DOMAIN entries :
            /\ entries[k].id = id
            /\ \A m \in DOMAIN entries : entries[m].id = id => m <= k]

\* C4: the catalog never holds two entries with the same id; after a run's
\* merge, an id that was already in the catalog keeps its single place (the
\* length does not grow for it) and its entry is the one the run produced
\* (the last one, when the run produced several with that id); ids new to the
\* catalog are added once each.
C4_OneEntryPerId ==
  /\ \A i, j \in DOMAIN catalog : catalog[i].id = catalog[j].id => i = j
  /\ run_pc = "merged" =>
       /\ IdsOf(catalog) = IdsOf(pre_catalog) \cup IdsOf(new_entries)
       /\ Len(catalog) =
            Len(pre_catalog) + Cardinality(IdsOf(new_entries) \ IdsOf(pre_catalog))
       /\ \A i \in DOMAIN pre_catalog :
            /\ catalog[i].id = pre_catalog[i].id
            /\ IF pre_catalog[i].id \in IdsOf(new_entries)
                 THEN catalog[i] = LastWithId(new_entries, pre_catalog[i].id)
                 ELSE catalog[i] = pre_catalog[i]
       /\ \A i \in DOMAIN catalog :
            catalog[i].id \in IdsOf(new_entries)
              => catalog[i] = LastWithId(new_entries, catalog[i].id)

\* C4 witness: a later run produced an entry for a content hash the catalog
\* already held under another URL; the length is unchanged and the stored
\* entry carries the new URL and timestamp.
C4_Witness ==
  /\ run_pc = "merged"
  /\ Len(new_entries) = 1
  /\ Len(catalog) = Len(pre_catalog)
  /\ \E i \in DOMAIN pre_catalog :
       /\ pre_catalog[i].id = new_entries[1].id
       /\ pre_catalog[i].sha256 # ""
       /\ pre_catalog[i].url # new_entries[1].url
       /\ pre_catalog[i].discovered_at # new_entries[1].discovered_at
       /\ catalog[i] = new_entries[1]

\* C5: when discovery starts, the seen-URL set holds every URL of the catalog
\* and the seen-hash set every content hash of the catalog.
C5_SeenCoversCatalog ==
  run_pc = "loaded" =>
    \A i \in DOMAIN catalog :
      /\ catalog[i].url \in state.seen_urls
      /\ catalog[i].sha256 # "" => catalog[i].sha256 \in state.seen_sha256

\* C5 witness: discovery starts with a catalog of two entries, one of them
\* with a content hash, while the state file is missing.
C5_Witness ==
  /\ run_pc = "loaded"
  /\ ~state_file.exists
  /\ Len(catalog) = 2
  /\ \E i \in DOMAIN catalog : catalog[i].sha256 # ""

\* C6: deduplicate_candidates returns the offered candidates whose URL is not
\* in the seen-URL set, in the order offered, and no download is issued for a
\* URL that was in the seen-URL set when deduplication ran.
C6_DedupBeforeFetch ==
  /\ run_pc = "deduped" =>
       /\ dedup_seen = state.seen_urls
       /\ new_candidates = SelectSeq(candidates, LAMBDA c : c.url \notin dedup_seen)
       /\ (\A i \in DOMAIN candidates : candidates[i].url \in dedup_seen)
            => new_candidates = <<>>
  /\ \A i \in DOMAIN downloaded : downloaded[i] \notin dedup_seen

\* C6 witness: a run was offered a seen URL and an unseen one, and has
\* downloaded the unseen one only.
C6_Witness ==
  /\ run_pc = "processing"
  /\ Len(candidates) = 2
  /\ \E i \in DOMAIN candidates : candidates[i].url \in dedup_seen
  /\ Len(new_candidates) = 1
  /\ Len(downloaded) = 1

\* C7 (as stated): after a run's merge, every candidate of the run whose
\* download failed has a "failed" entry in the catalog that records its URL
\* and a reason.
C7_EveryFailureRecorded ==
  run_pc = "merged" =>
    \A f \in failed_urls :
      \E i \in DOMAIN catalog :
        /\ catalog[i].url = f.url
        /\ catalog[i].status = "failed"
        /\ catalog[i].summary # ""

\* C8 (as stated): the token count of the bucket is within [0, capacity].
C8_TokensInRange == 0 <= bucket.tokens /\ bucket.tokens <= bucket.capacity

\* C9 (as stated): every acquisition that returned to its caller consumed one
\* token, so the grants never exceed capacity plus rate times elapsed time.
C9_GrantConsumesToken ==
  /\ granted = consumed
  /\ granted * TokenUnit <= bucket.capacity + bucket.rate * now

\* C10 (as stated): with concurrent callers of RateLimiter.acquire on one
\* bucket, no token is granted twice and the token count never drops below 0.
C10_AtomicAcquire ==
  /\ bucket.tokens >= 0
  /\ consumed * TokenUnit <= bucket.capacity + bucket.rate * now

\* base_delay * multiplier^n
RECURSIVE Grown(_, _, _)
Grown(base, mult, n) == IF n = 0 THEN base ELSE mult * Grown(base, mult, n - 1)

\* C11: the current delay of every backoff tracker is within
\* [base_delay, max_delay], after any sequence of recorded failures and
\* successes.
C11_DelayInRange ==
  \A s \in Sources :
    backoffs[s] # NoBackoff =>
      /\ backoffs[s].base_delay <= backoffs[s].current_delay
      /\ backoffs[s].current_delay <= backoffs[s].max_delay

\* C11 witness: a tracker that kept failing after its delay reached the cap.
C11_Witness ==
  \E s \in Sources :
    /\ backoffs[s].consecutive_failures = MaxFailures
    /\ backoffs[s].current_delay = MaxDelay
    /\ bo_last.before.current_delay = MaxDelay

\* C12: a recorded failure multiplies the delay by the multiplier, capped at
\* max_delay, and adds one to the consecutive-failure count; a recorded
\* success sets the delay to base_delay and the count to zero; so the delay is
\* always min(base_delay * multiplier^failures, max_delay).
C12_FailureSuccessSteps ==
  /\ \A s \in Sources :
       backoffs[s] # NoBackoff =>
         backoffs[s].current_delay =
           Min(Grown(BaseDelay, Multiplier, backoffs[s].consecutive_failures), MaxDelay)
  /\ bo_last.op = "record_failure" =>
       LET a == backoffs[bo_last.source]
           b == bo_last.before
       IN  /\ a.consecutive_failures = b.consecutive_failures + 1
           /\ a.current_delay =
                (IF b.current_delay * Multiplier > MaxDelay
                   THEN MaxDelay ELSE b.current_delay * Multiplier)
           /\ bo_last.delay = b.current_delay
  /\ bo_last.op = "record_success" =>
       /\ backoffs[bo_last.source].current_delay = BaseDelay
       /\ backoffs[bo_last.source].consecutive_failures = 0

\* C12 witness: a success recorded after the delay had reached the cap.
C12_Witness ==
  /\ bo_last.op = "record_success"
  /\ bo_last.before.consecutive_failures = MaxFailures
  /\ bo_last.before.current_delay = MaxDelay
  /\ backoffs[bo_last.source].current_delay = BaseDelay

\* What handle_response does for every status but 403: 429 and 503 answer
\* retry after a backoff wait, a 2xx answers no-retry and resets the backoff,
\* any other status answers no-retry and leaves the backoff as it was.
OtherStatusPolicy ==
  bo_last.op = "handle_response" =>
    LET a == backoffs[bo_last.source]
        b == bo_last.before
    IN  /\ bo_last.status \in {429, 503} =>
             /\ bo_last.retry
             /\ bo_last.delay = b.current_delay
             /\ a.consecutive_failures = b.consecutive_failures + 1
        /\ (200 <= bo_last.status /\ bo_last.status <= 299) =>
             /\ ~bo_last.retry
             /\ bo_last.delay = 0
             /\ a.current_delay = BaseDelay
             /\ a.consecutive_failures = 0
        /\ (bo_last.status \notin {429, 503, 403}
              /\ ~(200 <= bo_last.status /\ bo_last.status <= 299)) =>
             /\ ~bo_last.retry
             /\ bo_last.delay = 0
             /\ a = b

\* C13 (as stated): a 403 answers retry while fewer than 3 consecutive 403
\* responses were handled for the source before it, and give-up from the
\* fourth 403 in a row on; the other statuses as in OtherStatusPolicy.
C13_Forbidden403Run ==
  /\ OtherStatusPolicy
  /\ (bo_last.op = "handle_response" /\ bo_last.status = 403) =>
       (bo_last.retry <=> run403[bo_last.source] <= ForbiddenRetries)

\* C13 (amended): a 403 answers retry, after a backoff wait, while the
\* source's backoff counts fewer than 3 consecutive failures of any kind
\* (429, 503, 403 responses, failed requests) since its last success; once it
\* counts 3 or more the 403 answers give-up and the backoff is left as it was;
\* the other statuses as in OtherStatusPolicy.
C13_ResponsePolicy ==
  /\ OtherStatusPolicy
  /\ (bo_last.op = "handle_response" /\ bo_last.status = 403) =>
       LET a == backoffs[bo_last.source]
           b == bo_last.before
       IN  IF b.consecutive_failures < ForbiddenRetries
             THEN /\ bo_last.retry
                  /\ bo_last.delay = b.current_delay
                  /\ a.consecutive_failures = b.consecutive_failures + 1
             ELSE /\ ~bo_last.retry
                  /\ bo_last.delay = 0
                  /\ a = b

\* C13 witness: the first 403 of a source whose backoff already counts three
\* failures is answered with give-up.
C13_Witness ==
  /\ bo_last.op = "handle_response"
  /\ bo_last.status = 403
  /\ run403[bo_last.source] = 1
  /\ bo_last.before.consecutive_failures = ForbiddenRetries
  /\ ~bo_last.retry
  /\ backoffs[bo_last.source] = bo_last.before

\* C14: when a caller finds no token, its wait is (1 - tokens) / rate with
\* the tokens as refilled for the time elapsed; after capacity acquisitions on
\* the full bucket with no time elapsed, the next one waits 1 / rate.
C14_WaitForNextToken ==
  /\ [](now = 0 =>
          /\ granted <= WebCapacity
          /\ \A c \in Callers :
               cpc[c] # "idle" =>
                 /\ granted = WebCapacity
                 /\ bucket.tokens = 0
                 /\ wake[c] * WEB_REQUESTS_PER_SECOND = TicksPerSecond)
  /\ [][\A c \in Callers :
          (cpc[c] = "idle" /\ cpc'[c] # "idle") =>
            LET t == Min(bucket.capacity,
                         bucket.tokens + (now - bucket.last_update) * bucket.rate)
            IN  /\ t < TokenUnit
                /\ bucket'.tokens = t
                /\ wake'[c] > now
                /\ (wake'[c] - now) * bucket.rate = TokenUnit - t]_vars

\* C14 witness: the sixth acquisition at time 0 sleeps for one second.
C14_Witness ==
  /\ now = 0
  /\ granted = WebCapacity
  /\ \E c \in Callers : cpc[c] = "sync_sleep" /\ wake[c] = TicksPerSecond

\* C15: the first acquisition for a source name the limiter has no bucket for
\* makes a bucket with the rate and capacity of the "web" bucket, full, and is
\* granted at once; every later acquisition for the name finds the bucket the
\* earlier ones left, and no other bucket is touched.
C15_DefaultBucket ==
  /\ [](/\ lim_last.op # "none" => buckets[lim_last.source] # NoBucket
        /\ lim_last.created =>
             /\ lim_last.found.rate = buckets["web"].rate
             /\ lim_last.found.capacity = buckets["web"].capacity
             /\ lim_last.found.tokens = lim_last.found.capacity
             /\ lim_last.wait = 0)
  /\ [][lim_calls' # lim_calls =>
          /\ buckets[lim_last'.source] # NoBucket =>
               (lim_last'.found = buckets[lim_last'.source] /\ ~lim_last'.created)
          /\ \A r \in Sources \ {lim_last'.source} : buckets'[r] = buckets[r]]_vars

\* C15 witness: a sixth acquisition in a row for the unknown name waits on the
\* bucket the first one made, while the "web" bucket is still full.
C15_Witness ==
  /\ lim_last.source = "crawl"
  /\ ~lim_last.created
  /\ lim_last.wait > 0
  /\ buckets["crawl"] # NoBucket
  /\ buckets["web"].tokens = buckets["web"].capacity

\* The Discovering step of this run has been made.
Discovered == run_pc = "discovered" \/ (run_pc = "failed" /\ disc.invoked # {})

\* C16 (as stated): whatever fails inside one source, network error or
\* unparsable response, the Discovering step ends normally, every enabled
\* source has been invoked and the failing source has contributed nothing.
C16_SourceFailureIsolated ==
  Discovered =>
    /\ ~disc.raised
    /\ run_pc # "failed"
    /\ \A s \in SourceNames : SourceEnabled(config, s) => s \in disc.invoked
    /\ \A s \in SourceNames : disc.kinds[s] # "ok" => disc.count[s] = 0

\* publish_catalog is at work: between its first open and its return.
PublishingPcs == {"json_open", "json_written", "csv_open", "csv_written", "stats_open"}

\* The three files as publish_catalog leaves them for a catalog.
Published(cat) == [f \in ArtifactNames |-> Artifact(ArtifactRows(f, SortById(cat)))]

\* C17 (as stated): a run processes at most max_validate candidates, and a
\* candidate beyond that maximum is not downloaded in this run and its URL is
\* not in the seen-URL set, in memory or as saved.
C17_AtMostMaxValidate ==
  /\ Len(downloaded) <= config.max_validate
  /\ processed <= Len(downloaded)
  /\ run_pc \in {"merged", "saving", "saved", "done"} \cup PublishingPcs =>
       \A i \in (config.max_validate + 1)..Len(new_candidates) :
         /\ \A j \in DOMAIN downloaded : downloaded[j] # new_candidates[i].url
         /\ new_candidates[i].url \notin state.seen_urls
         /\ run_pc \in {"saved", "done"} \cup PublishingPcs =>
              new_candidates[i].url \notin state_file.seen_urls

\* C18 (as stated): a URL that a run discovered and left unprocessed at its
\* per-run maximum is offered again by the discovery of the next run that
\* runs all sources without a failing one.
C18_LeftoverResurfaces ==
  (/\ run_pc = "discovered"
   /\ config.source = "all"
   /\ \A s \in SourceNames : disc.kinds[s] = "ok")
    => \A u \in leftover : \E i \in DOMAIN candidates : candidates[i].url = u

\* C19: a dry run never leaves the steps up to deduplication, downloads
\* nothing, and no step of it changes the catalog, the state file or the
\* published artifacts.
C19_DryRunFrame ==
  /\ [](config.dry_run =>
          /\ run_pc \in {"loaded", "discovered", "deduped", "failed"}
          /\ downloaded = <<>>
          /\ new_entries = <<>>
          /\ catalog = dry_start.catalog
          /\ state_file = dry_start.state_file
          /\ published = dry_start.published)
  /\ [][config.dry_run => UNCHANGED <<catalog, state_file, published>>]_vars

\* C19 witness: a dry run has deduplicated, found new work, and holds a
\* cursor in memory that the state file does not have, over a catalog and a
\* state file that earlier runs wrote.
C19_Witness ==
  /\ config.dry_run
  /\ run_pc = "deduped"
  /\ new_candidates # <<>>
  /\ catalog # <<>>
  /\ state_file.exists
  /\ state.github_cursor # state_file.github_cursor

\* C20 (as stated): whenever no run is going on, after a normal end or a
\* crash at any point, the persisted state is a valid one, and no run fails
\* for not being able to load it.
C20_PersistedStateNeverCorrupt ==
  /\ (run_pc = "idle" /\ state_file.exists) => state_file.valid
  /\ run_pc = "failed" => (disc.invoked # {} \/ downloaded # <<>>)

\* The positions of run_harvest in the order of its statements.
RunOrder ==
  <<"idle", "loaded", "discovered", "deduped", "processing", "writing", "merged",
    "saving", "saved", "json_open", "json_written", "csv_open", "csv_written",
    "stats_open", "done">>
RunRank(pc) == CHOOSE i \in DOMAIN RunOrder : RunOrder[i] = pc

\* C21: a run that is not a dry run goes through Loading State, Discovering,
\* Deduplicating, Processing, Merging, Persisting, Publishing, Done in that
\* order and never back (the Processing loop, the writing of the merged
\* catalog and the writing of an artifact repeat, with no turn at all when
\* there is nothing to process; a run may end early by an exception or a
\* kill).  Nothing is downloaded before deduplication, the catalog is
\* written before the state file is opened for writing and not after (a kill
\* while it is written leaves a part of it), and the artifacts are published,
\* file by file, only once the state is saved (a kill while one is written
\* leaves a part of it).
C21_OrderedRun ==
  /\ [](downloaded # <<>> =>
          run_pc \in {"processing", "writing", "merged", "saving", "saved", "done",
                      "failed"} \cup PublishingPcs)
  /\ [][(~config.dry_run /\ ~config'.dry_run) =>
          /\ (run_pc' # run_pc /\ run_pc' \notin {"idle", "failed"}) =>
               /\ run_pc # "failed"
               /\ \/ RunRank(run_pc') = RunRank(run_pc) + 1
                  \/ run_pc = "deduped" /\ run_pc' = "merged"
          /\ run_pc' = "failed" =>
               run_pc \in {"idle", "loaded", "deduped", "processing"}
          /\ downloaded' # downloaded /\ downloaded' # <<>> =>
               /\ run_pc \in {"deduped", "processing"}
               /\ run_pc' \in {"processing", "failed"}
          /\ catalog' # catalog =>
               /\ run_pc \in {"processing", "writing"}
               /\ run_pc' \in {"writing", "merged", "idle"}
          /\ (state_file' # state_file /\ run_pc # "idle") =>
               /\ run_pc \in {"merged", "saving"}
               /\ run_pc' \in {"saving", "saved"}
          /\ published' # published =>
               /\ run_pc \in {"saved"} \cup PublishingPcs
               /\ \/ RunRank(run_pc') = RunRank(run_pc) + 1
                  \/ run_pc' = run_pc
                  \/ run_pc' = "idle"]_vars

\* C21 witness: a run has downloaded, merged a new entry into the catalog,
\* saved its state and published the merged catalog.
C21_Witness ==
  /\ run_pc = "done"
  /\ ~config.dry_run
  /\ downloaded # <<>>
  /\ catalog # pre_catalog
  /\ state_file = SaveState(state)
  /\ published = Published(catalog)
  /\ published.json.rows # catalog

\* C22: in one discovery pass the code-search page goes up by exactly one
\* when GitHub was asked and reported more pages (page * per_page below
\* total_count), and stays where it was when there are no further pages, the
\* request failed or GitHub was not asked; nothing else in a run moves it;
\* the cursor a run is about to save is never below the persisted one, and
\* the save writes exactly it.
C22_CursorAdvance ==
  /\ []((run_pc \in {"loaded", "discovered", "deduped", "processing", "merged"}
           /\ ~LoadRaises(state_file)) =>
          CursorPage(state) >= CursorPage(LoadState(state_file)))
  /\ [][/\ (run_pc = "loaded" /\ run_pc' \in {"discovered", "failed"}) =>
             IF /\ "github" \in disc'.invoked
                /\ disc'.kinds["github"] = "ok"
                /\ CursorPage(state) * GithubPerPage < GithubTotalCount
               THEN CursorPage(state') = CursorPage(state) + 1
               ELSE CursorPage(state') = CursorPage(state)
        /\ (run_pc \notin {"idle", "loaded"} /\ run_pc' # "idle") =>
             state'.github_cursor = state.github_cursor
        /\ (run_pc = "saving" /\ run_pc' = "saved") =>
             state_file'.github_cursor = state.github_cursor]_vars

\* C22 witness: an earlier run advanced the cursor to page 2 and saved it; in
\* this run the GitHub request failed and the page is still 2.
C22_Witness ==
  /\ run_pc = "discovered"
  /\ "github" \in disc.invoked
  /\ disc.kinds["github"] = "network_error"
  /\ state_file.valid
  /\ state_file.github_cursor = 2
  /\ state.github_cursor = 2

\* C23 (as stated): a repository that the per-repository search scanned in
\* one run is not scanned again in a later run, and no run scans a
\* repository twice.
C23_NoRescan ==
  /\ \A i \in DOMAIN gh_last.scanned : gh_last.scanned[i] \notin gh_last.before
  /\ \A i, j \in DOMAIN gh_last.scanned : i # j => gh_last.scanned[i] # gh_last.scanned[j]

\* C24 (as stated), for the code-search source: one discovery call returns at
\* most max_results candidates.
C24_AtMostMaxResults ==
  gh_last.called => Len(gh_last.candidates) <= gh_last.max_results

\* The host of the URL is on the allowlist: equal to an entry or a proper
\* subdomain of one, letter case aside.
HostListed(url, allowed_domains) ==
  \E allowed \in allowed_domains :
    \/ Lower(url.host) = Lower(allowed)
    \/ EndsWith(Lower(url.host), <<".">> \o Lower(allowed))

\* C25 (as stated): the allowlist check accepts a URL if and only if the
\* allowlist is empty or the URL's host is equal to, or a proper subdomain
\* of, an allowlisted domain, letter case aside.
C25_AllowlistIff ==
  al_last.called =>
    (al_last.result <=>
       (al_last.allowed_domains = {} \/ HostListed(al_last.url, al_last.allowed_domains)))

\* The page has a link with the target extension that leads to the i-th URL.
LinkedOnPage(html, i) == \E k \in DOMAIN html : html[k].matches /\ html[k].target = i

\* C26 (as stated): crawling a fetched seed page gives exactly one candidate
\* for each distinct URL that a link with the target extension leads to and
\* whose host is allowlisted (or the allowlist is empty), none for any other
\* URL, each with source_type "seed" and the seed page as source_ref.
C26_OneCandidatePerLink ==
  (seed_last.called /\ seed_last.fetched) =>
    /\ \A i \in DOMAIN LinkTargets :
         Cardinality({ k \in DOMAIN seed_last.candidates :
                         seed_last.candidates[k].url = LinkTargets[i] })
           = IF /\ LinkedOnPage(seed_last.html, i)
                /\ \/ seed_last.allowed_domains = {}
                   \/ HostListed(LinkTargets[i].auth, seed_last.allowed_domains)
               THEN 1 ELSE 0
    /\ \A k \in DOMAIN seed_last.candidates :
         /\ seed_last.candidates[k].source_type = "seed"
         /\ seed_last.candidates[k].source_ref = SeedUrl

\* C27: no candidate of a Common Crawl discovery is a URL that was marked
\* processed in the state handed to it, no URL is offered twice by one
\* call, and the processed-URL set afterwards holds every URL it held
\* before and every URL returned; no call ever takes a URL out of it.
C27_ProcessedUrls ==
  /\ [](cc_last.called =>
          /\ \A k \in DOMAIN cc_last.candidates :
               /\ cc_last.candidates[k] \notin cc_last.before
               /\ cc_last.candidates[k] \in cc_state.processed_urls
          /\ \A j, k \in DOMAIN cc_last.candidates :
               j # k => cc_last.candidates[j] # cc_last.candidates[k]
          /\ cc_last.before \subseteq cc_state.processed_urls)
  /\ [][cc_state.processed_urls \subseteq cc_state'.processed_urls]_vars

\* C27 witness: a discovery was handed a state with processed URLs, passed
\* over a record for that reason and returned a new URL.
C27_Witness ==
  /\ cc_last.called
  /\ cc_last.before # {}
  /\ cc_last.skipped > 0
  /\ cc_last.candidates # <<>>

\* The most sitemaps one outermost call can fetch: one at depth 0, and at
\* each further depth NestedLimit for each one above.
FetchBound == 1 + NestedLimit + NestedLimit * NestedLimit

\* C28: crawl_sitemap ends on every sitemap graph, cyclic ones included: a
\* call in progress is at depth 3 at most and fetches only up to depth 2,
\* every call loops over at most 5 nested sitemaps, one outermost call
\* fetches at most 1 + 5 + 25 sitemaps, and every outermost call returns.
C28_SitemapCrawlBounded ==
  /\ [](/\ Len(sm_stack) <= SitemapDepthLimit + 2
        /\ \A i \in DOMAIN sm_stack :
             /\ sm_stack[i].depth = i - 1
             /\ sm_stack[i].entered => sm_stack[i].depth <= SitemapDepthLimit
             /\ Len(sm_stack[i].nested) <= NestedLimit
        /\ sm_fetches <= FetchBound)
  /\ (sm_running ~> ~sm_running)

\* C28 witness: on a sitemap index that lists itself six times the crawl has
\* returned after fetching 31 sitemaps.
C28_Witness ==
  /\ ~sm_running
  /\ sm_graph["s1"] = [target |-> "s1", count |-> MaxNested]
  /\ sm_fetches = FetchBound

\* C29: when the HEAD probe declares a size above the byte budget,
\* download_file ends with FileTooLargeError straight from the probe: the
\* GET request is never issued, no response is read and no file is created.
C29_FailFastOnDeclaredSize ==
  /\ []((dl_pc # "idle" /\ HeadTooLarge(dl_head, dl_args.max_bytes)) =>
          /\ dl_pc = "done"
          /\ dl_result = [kind |-> "FileTooLargeError", detail |-> <<"from Content-Length">>]
          /\ dl_resp = NoResp
          /\ dl_total = 0
          /\ dl_file = NoFile)
  /\ [][(dl_pc = "head" /\ HeadTooLarge(dl_head', dl_args.max_bytes)) =>
          dl_pc' = "done"]_vars
  /\ [](dl_pc \in {"get", "stream", "check"} =>
          (dl_head.kind = "declared" => dl_head.size <= dl_args.max_bytes))

\* C29 witness: the probe declared one byte more than the budget and the
\* call has ended.
C29_Witness ==
  /\ dl_pc = "done"
  /\ dl_head.kind = "declared"
  /\ dl_head.size = dl_args.max_bytes + 1
  /\ dl_result.kind = "FileTooLargeError"
  /\ dl_resp = NoResp

\* C30 (as stated): whatever the server does, download_file ends with a
\* DownloadResult or with one of the four DownloadError kinds.
C30_TypedOutcome ==
  dl_pc = "done" =>
    dl_result.kind \in {"DownloadResult", "FileTooLargeError", "ZipBombError",
                        "TooManyRedirectsError", "DownloadFailedError"}

\* The GET requests download_file has sent in this call.
GetsSent == Cardinality({ i \in 1..Len(dl_reqs) : dl_reqs[i].method = "GET" })

\* download_file ended on a transient-network failure: a transport error
\* (timeout, connection reset) or a 5xx response.
TransientFailure ==
  /\ dl_result.kind = "DownloadFailedError"
  /\ \/ dl_result.detail = <<"HTTP error">>
     \/ dl_result.detail = <<"HTTP status">> /\ dl_resp.status >= 500

\* C31 (as stated): a download that ends on a transient-network failure has
\* been retried, that is, the body request was sent at least twice before
\* the candidate is given up; a download that ends on a resource-limit
\* failure was never retried.
C31_TransientRetried ==
  dl_pc = "done" =>
    /\ TransientFailure => GetsSent >= 2
    /\ dl_result.kind \in {"FileTooLargeError", "ZipBombError", "TooManyRedirectsError"}
         => GetsSent <= 1

\* C39 (as stated): every HTTP request of download_file, its size probe and
\* its body request, is preceded by a rate-limiter acquisition of its own: no
\* two requests of a call go out under the same acquisition.
C39_OwnAcquisitionPerRequest ==
  \A i, j \in 1..Len(dl_reqs) :
    i # j => dl_reqs[i].acquisition # dl_reqs[j].acquisition

\* The entry comes from a candidate that downloaded as the valid archive.
FromValidArchive(e) == e.sha256 = "h1"

\* The download of a corrupted archive: inspect_zip cannot open it as a ZIP
\* file (ZipBombError, "Invalid ZIP file"), or zipfile cannot read its entry
\* names (UnicodeDecodeError).
CorruptedArchiveErrors == {"ZipBombError", "UnicodeDecodeError"}

\* C32 (as stated): when a run has got a valid archive from one candidate
\* and a corrupted archive from another, the run does not fail, and the
\* catalog it has merged holds an entry for each, at different places, with
\* different ids and different verification statuses.
C32_ValidAndCorruptedEntries ==
  \A i \in 1..Len(new_entries), f \in failed_urls :
    (FromValidArchive(new_entries[i]) /\ f.error \in CorruptedArchiveErrors) =>
      /\ run_pc # "failed"
      /\ run_pc \in {"merged", "saving", "saved", "done"} \cup PublishingPcs =>
           \E a, b \in 1..Len(catalog) :
             /\ a # b
             /\ catalog[a].id = new_entries[i].id
             /\ catalog[b].url = f.url
             /\ catalog[a].id # catalog[b].id
             /\ catalog[a].status # catalog[b].status

\* C33: a process whose run completed exits with status 0, a dry run and a
\* run without new entries included; one whose run ended on an exception
\* exits with 1; one the user interrupted exits with 130.  A run that has
\* reached its end or has failed exits with 0 or 1 accordingly, unless it is
\* interrupted or killed before it exits.
C33_ExitStatus ==
  /\ [](exit_status.ending = "returned" => exit_status.code = 0)
  /\ [](exit_status.ending = "raised" => exit_status.code = 1)
  /\ [](exit_status.ending = "interrupted" => exit_status.code = 130)
  /\ [][(run_pc = "done" /\ run_pc' = "idle"
           /\ exit_status'.ending \notin {"interrupted", "none"}) =>
          exit_status' = [ending |-> "returned", code |-> 0,
                          dry_run |-> FALSE, new_entries |-> Len(new_entries)]]_vars
  /\ [][(run_pc = "failed" /\ run_pc' = "idle" /\ exit_status'.ending # "none") =>
          (exit_status'.ending = "raised" /\ exit_status'.code = 1)]_vars
  /\ [][(run_pc = "deduped" /\ config.dry_run /\ run_pc' = "idle") =>
          exit_status'.code \in {0, 130, -1}]_vars

\* C33 witness: the second run was not a dry run, added no entry and has
\* exited with status 0.
C33_Witness ==
  /\ runs = 2
  /\ run_pc = "idle"
  /\ exit_status = [ending |-> "returned", code |-> 0, dry_run |-> FALSE, new_entries |-> 0]

\* C34 (as stated): a run that started without a state file downloads no URL
\* that an earlier completed run has processed, whether that download had
\* succeeded or failed: the catalog alone gives the seen URLs.
C34_CatalogSufficesForDedup ==
  (run_pc = "processing" /\ ~state_file.exists) =>
    \A i \in 1..Len(downloaded) : downloaded[i] \notin processed_before

\* C35 (as stated): within one run download_file is called at most once for
\* a URL, however often discovery offered it.
C35_OneDownloadPerUrl ==
  \A i, j \in 1..Len(downloaded) : i # j => downloaded[i] # downloaded[j]

\* C36 (as stated): an entry for a content fingerprint that stays in the
\* catalog keeps its discovered_at, whatever a later merge does to the
\* entry.
C36_DiscoveredAtKept ==
  run_pc = "merged" =>
    \A a \in 1..Len(pre_catalog), b \in 1..Len(catalog) :
      (pre_catalog[a].id = catalog[b].id /\ pre_catalog[a].id # PlaceholderId) =>
        catalog[b].discovered_at = pre_catalog[a].discovered_at

\* C37 (as stated): after a discovery pass whose CDX request failed, the
\* persisted cursor is the one that was stored before the pass.
C37_FailedQueryKeepsCursor ==
  (cx_last.called /\ cx_last.failed) => cx_cursor = cx_last.cursor_before

\* C38 (as stated): an eligible record that a pass left unconsumed on the
\* page it fetched, because it stopped at max_results, is returned as a
\* candidate by some later pass.
C38_UnconsumedReturnedLater ==
  \A u \in IndexUrls : (u \in cx_pending) ~> (u \notin cx_pending)

\* The call of rate_limited_request in progress has delivered.
RqDelivered == rq_pc = "done"

\* The calls in progress: between the start of rate_limited_request and its
\* return or raise.
RqRunning == rq_pc \in {"loop", "acquire", "call", "backoff"}

\* C40 (as stated): rate_limited_request always terminates, after at most
\* max_retries + 1 calls of request_func, each of them preceded by exactly
\* one acquisition on the source; it returns the result of the last call
\* made, or raises the exception of the final attempt, and then every earlier
\* attempt has recorded a failure on the source's backoff tracker.
C40_RaisesOnFinalAttemptOnly ==
  /\ [](/\ Len(rq_log) <= rq_call.max_retries + 1
        /\ \A i \in DOMAIN rq_log : rq_log[i].acquisitions = 1
        /\ RqDelivered =>
             /\ rq_result.kind \in {"returned", "raised"}
             /\ Len(rq_log) >= 1
             /\ rq_result.call = Len(rq_log)
             /\ rq_result.outcome = rq_log[Len(rq_log)].outcome
             /\ rq_result.kind = "raised" =>
                  /\ rq_log[Len(rq_log)].attempt = rq_call.max_retries
                  /\ \A i \in 1..(Len(rq_log) - 1) : rq_log[i].recorded)
  /\ RqRunning ~> RqDelivered

\* C40 (amended): rate_limited_request always terminates, after at most
\* max_retries + 1 calls of request_func, each of them preceded by exactly
\* one acquisition on the source.  It returns the result of the last call
\* made; or it raises the Exception of the final attempt, and then every
\* earlier attempt has recorded a failure on the source's backoff tracker; or
\* it raises, on whatever attempt, an exception of request_func that is no
\* Exception, at once and with no failure recorded for that call; or it
\* raises the cancellation that reached it in one of its sleeps.
C40_BoundedRetry ==
  /\ [](/\ Len(rq_log) <= rq_call.max_retries + 1
        /\ \A i \in DOMAIN rq_log : rq_log[i].acquisitions = 1
        /\ RqDelivered =>
             /\ rq_result.kind \in {"returned", "raised"}
             /\ rq_result.outcome # Cancelled =>
                  /\ Len(rq_log) >= 1
                  /\ rq_result.call = Len(rq_log)
                  /\ rq_result.outcome = rq_log[Len(rq_log)].outcome
             /\ rq_result.kind = "returned" =>
                  rq_result.outcome.kind \in {"response", "plain"}
             /\ rq_result.kind = "raised" =>
                  \/ /\ rq_result.outcome.kind = "raise"
                     /\ rq_log[Len(rq_log)].attempt = rq_call.max_retries
                     /\ \A i \in 1..(Len(rq_log) - 1) : rq_log[i].recorded
                  \/ /\ rq_result.outcome.kind = "base_exception"
                     /\ ~rq_log[Len(rq_log)].recorded
                  \/ /\ rq_result.outcome = Cancelled
                     /\ rq_result.call = 0)
  /\ RqRunning ~> RqDelivered

\* A call with retries has raised on its final attempt, after an earlier
\* attempt that raised and one that was answered with a status that asks for
\* a retry, and the clock has moved on by the two backoff sleeps.
C40_Witness ==
  /\ RqDelivered
  /\ rq_result.kind = "raised"
  /\ rq_result.outcome.kind = "raise"
  /\ rq_call.max_retries >= 2
  /\ Len(rq_log) = rq_call.max_retries + 1
  /\ \E i \in 1..(Len(rq_log) - 1) : rq_log[i].outcome.kind = "raise"
  /\ \E i \in 1..(Len(rq_log) - 1) : rq_log[i].outcome.kind = "response"
  /\ now >= (BaseDelay + BaseDelay * Multiplier) * TicksPerSecond

====
